---- MODULE Spec2Model ----
(***************************************************************************)
(* A model of dvc-render's Vega template filling engine:                   *)
(*   src/src/dvc_render/vega_templates.py  (Template, get_template)        *)
(*   src/src/dvc_render/vega.py            (VegaRenderer)                  *)
(*                                                                         *)
(* Python strings are modelled as sequences of symbols.  A symbol stands   *)
(* for an indivisible run of characters ("filename", "::", ".", ...); the  *)
(* quote and the backslash are symbols of their own, so that quoting,      *)
(* escaping, joining and substring replacement are computed, not assumed.  *)
(* Template content is JSON text, as in vega_templates.py.                 *)
(***************************************************************************)
EXTENDS Integers, Sequences, FiniteSets, TLC

(***************************************************************************)
(* Symbols and the order of strings                                        *)
(***************************************************************************)
Q == "\""
BS == "\\"
NL == "\n"

\* The symbols that take part in comparisons (sorting of keys and domains),
\* listed in code point order of the characters they stand for.
Alphabet ==
    << ".", "0", "1", "2", "::", "B", "C", "D", "[", BS, "]",
       "acc", "bar", "bind", "domain", "field", "filename", "foo",
       "legend", "loss", "name", "range", "rev", "scale", "select",
       "step", "symbolFillColor", "symbolStrokeColor", "test", "train",
       "val" >>

Rank(sym) == CHOOSE i \in 1..Len(Alphabet) : Alphabet[i] = sym

RECURSIVE StrLess(_, _)
\* Python's < on str: lexicographic, a proper prefix is smaller.
StrLess(a, b) ==
    IF b = <<>> THEN FALSE
    ELSE IF a = <<>> THEN TRUE
    ELSE IF Head(a) = Head(b) THEN StrLess(Tail(a), Tail(b))
    ELSE Rank(Head(a)) < Rank(Head(b))

MinStr(S) == CHOOSE a \in S : \A b \in S : a = b \/ StrLess(a, b)

RECURSIVE SortedList(_)
\* list(a_set) followed by list.sort(): the distinct members, ascending.
SortedList(S) ==
    IF S = {} THEN <<>>
    ELSE LET m == MinStr(S) IN <<m>> \o SortedList(S \ {m})

Range(s) == {s[i] : i \in 1..Len(s)}

RECURSIVE Flatten(_)
\* "".join(parts)
Flatten(parts) ==
    IF Len(parts) = 0 THEN <<>>
    ELSE IF Len(parts) = 1 THEN parts[1]
    ELSE LET half == Len(parts) \div 2
         IN  Flatten(SubSeq(parts, 1, half))
                \o Flatten(SubSeq(parts, half + 1, Len(parts)))

RECURSIVE Join(_, _)
\* sep.join(parts)
Join(sep, parts) ==
    IF Len(parts) = 0 THEN <<>>
    ELSE IF Len(parts) = 1 THEN parts[1]
    ELSE LET half == Len(parts) \div 2
         IN  Join(sep, SubSeq(parts, 1, half)) \o sep
                \o Join(sep, SubSeq(parts, half + 1, Len(parts)))

\* s[i:i+len(t)] == t
MatchAt(s, t, i) ==
    /\ s[i] = t[1]
    /\ i + Len(t) - 1 <= Len(s)
    /\ \A j \in 2..Len(t) : s[i + j - 1] = t[j]

\* t in s
Contains(s, t) == \E i \in 1..(Len(s) - Len(t) + 1) : MatchAt(s, t, i)

RECURSIVE ReplaceFrom(_, _, _, _)
ReplaceFrom(s, old, new, i) ==
    LET hits == {j \in i..(Len(s) - Len(old) + 1) : MatchAt(s, old, j)}
    IN  IF hits = {} THEN SubSeq(s, i, Len(s))
        ELSE LET j == CHOOSE h \in hits : \A g \in hits : h <= g
             IN  SubSeq(s, i, j - 1) \o new
                     \o ReplaceFrom(s, old, new, j + Len(old))

\* str.replace(old, new): every occurrence, left to right, not overlapping.
Replace(s, old, new) == ReplaceFrom(s, old, new, 1)

(***************************************************************************)
(* JSON values and json.dumps                                              *)
(***************************************************************************)
\* A value is a tagged node.  A dict is the sequence of its <<key, value>>
\* items in insertion order.
Str(s) == [k |-> "s", v |-> s]
Lit(sym) == [k |-> "n", v |-> <<sym>>]
None == [k |-> "z", v |-> <<>>]
List(items) == [k |-> "l", v |-> items]
Dict(items) == [k |-> "m", v |-> items]

IsNone(x) == x.k = "z"
IsStr(x) == x.k = "s"

Keys(d) == {d[i][1] : i \in 1..Len(d)}
Has(d, key) == key \in Keys(d)
\* dict.get(key)
Get(d, key) ==
    IF Has(d, key) THEN d[CHOOSE i \in 1..Len(d) : d[i][1] = key][2] ELSE None
\* d[key] = val
Put(d, key, val) ==
    IF Has(d, key)
    THEN [i \in 1..Len(d) |-> IF d[i][1] = key THEN <<key, val>> ELSE d[i]]
    ELSE Append(d, <<key, val>>)
SortItems(d) ==
    LET ks == SortedList(Keys(d))
    IN  [i \in 1..Len(ks) |-> <<ks[i], Get(d, ks[i])>>]

\* The escapes json.dumps applies inside a string.
EscapeSym(sym) ==
    IF sym = Q THEN <<BS, Q>>
    ELSE IF sym = BS THEN <<BS, BS>>
    ELSE IF sym = NL THEN <<BS, "n">>
    ELSE <<sym>>

JsonEscape(s) == Flatten([i \in 1..Len(s) |-> EscapeSym(s[i])])

\* A line break followed by the indentation of nesting level `level` (four
\* spaces a level), as one symbol.
NewLine(level) ==
    << CASE level = 0 -> NL
         [] level = 1 -> "\n    "
         [] level = 2 -> "\n        "
         [] level = 3 -> "\n            "
         [] level = 4 -> "\n                "
         [] OTHER -> "\n                    " >>

RECURSIVE Dumps(_, _, _, _)
\* json.dumps(value, indent=4 if indent else None,
\*            separators=(",", ": ") if indent else (", ", ": "),
\*            sort_keys=sort_keys), written at nesting level `level`.
Dumps(x, indent, sort_keys, level) ==
    LET open == IF indent THEN NewLine(level + 1) ELSE <<>>
        close == IF indent THEN NewLine(level) ELSE <<>>
        sep == IF indent THEN <<",">> \o NewLine(level + 1) ELSE <<", ">>
    IN  CASE x.k = "s" -> <<Q>> \o JsonEscape(x.v) \o <<Q>>
          [] x.k = "n" -> x.v
          [] x.k = "z" -> <<"null">>
          [] x.k = "l" ->
                IF x.v = <<>> THEN <<"[]">>
                ELSE <<"[">> \o open
                     \o Join(sep, [i \in 1..Len(x.v) |->
                                     Dumps(x.v[i], indent, sort_keys, level + 1)])
                     \o close \o <<"]">>
          [] x.k = "m" ->
                IF x.v = <<>> THEN <<"{}">>
                ELSE LET items == IF sort_keys THEN SortItems(x.v) ELSE x.v
                     IN  <<"{">> \o open
                         \o Join(sep, [i \in 1..Len(items) |->
                               <<Q>> \o JsonEscape(items[i][1]) \o <<Q, ": ">>
                               \o Dumps(items[i][2], indent, sort_keys, level + 1)])
                         \o close \o <<"}">>

(***************************************************************************)
(* Template (vega_templates.py)                                            *)
(***************************************************************************)
ANCHOR_OPEN == "<DVC_METRIC_"
ANCHOR_CLOSE == ">"

\* str.upper() on the anchor names in use.
Upper(name) ==
    CASE name = "title" -> "TITLE"
      [] name = "x" -> "X"
      [] name = "y" -> "Y"
      [] name = "x_label" -> "X_LABEL"
      [] name = "y_label" -> "Y_LABEL"
      [] name = "data" -> "DATA"
      [] name = "color" -> "COLOR"
      [] name = "group_by" -> "GROUP_BY"
      [] name = "group_by_x" -> "GROUP_BY_X"
      [] name = "group_by_y" -> "GROUP_BY_Y"
      [] name = "pivot_field" -> "PIVOT_FIELD"
      [] name = "row" -> "ROW"
      [] name = "shape" -> "SHAPE"
      [] name = "stroke_dash" -> "STROKE_DASH"
      [] name = "zoom_and_pan" -> "ZOOM_AND_PAN"
      [] OTHER -> name

\* Template.anchor: ANCHOR.format(name.upper()), ANCHOR = "<DVC_METRIC_{}>"
anchor(name) == <<ANCHOR_OPEN, Upper(name), ANCHOR_CLOSE>>

\* Template.anchor_str: the anchor wrapped in double quotes.
anchor_str(name) == <<Q>> \o anchor(name) \o <<Q>>

\* A variant that finds every anchor.
has_anchor_always(content, name) == TRUE

\* Template.has_anchor: anchor_str(name) in content
has_anchor(content, name) == Contains(content, anchor_str(name))

\* Template.fill_anchor: the quoted anchor replaced by
\* json.dumps(value, indent=4, separators=(",", ": "), sort_keys=True).
fill_anchor(content, name, value) ==
    Replace(content, anchor_str(name), Dumps(value, TRUE, TRUE, 0))

\* Template.escape_special_characters
escape_special_characters(value) ==
    LET a == Replace(value, <<".">>, <<BS, ".">>)
        b == Replace(a, <<"[">>, <<BS, "[">>)
    IN  Replace(b, <<"]">>, <<BS, "]">>)

\* Template.check_field_exists: TRUE when it returns, FALSE when it raises
\* NoFieldInDataError.
check_field_exists(data, field) ==
    \E i \in 1..Len(data) : Has(data[i], field)

KV(sym, val) == <<(<<sym>>), val>>
S1(sym) == Str(<<sym>>)
Tok(name) == Str(anchor(name))

\* LinearTemplate.DEFAULT_CONTENT
LinearContent ==
    Dict(<< KV("$schema", S1("https://vega.github.io/schema/vega-lite/v5.json")),
            KV("data", Dict(<< KV("values", Tok("data")) >>)),
            KV("title", Tok("title")),
            KV("width", Lit("300")),
            KV("height", Lit("300")),
            KV("mark", Dict(<< KV("type", S1("line")),
                               KV("point", Lit("true")),
                               KV("tooltip", Dict(<< KV("content", S1("data")) >>)) >>)),
            KV("encoding", Dict(<<
                KV("x", Dict(<< KV("field", Tok("x")),
                                KV("type", S1("quantitative")),
                                KV("title", Tok("x_label")) >>)),
                KV("y", Dict(<< KV("field", Tok("y")),
                                KV("type", S1("quantitative")),
                                KV("title", Tok("y_label")),
                                KV("scale", Dict(<< KV("zero", Lit("false")) >>)) >>)),
                KV("color", Dict(<< KV("field", S1("rev")),
                                    KV("type", S1("nominal")) >>)) >>)) >>)

\* The text of a built-in: json.dumps(DEFAULT_CONTENT, indent=4,
\* separators=(",", ": ")) + "\n"
DefaultText(tree) == Dumps(tree, TRUE, FALSE, 0) \o <<NL>>

(***************************************************************************)
(* VegaRenderer: pure parts (vega.py)                                      *)
(***************************************************************************)
FIELD_SEPARATOR == <<"::">>
FILENAME == <<"filename">>
FIELD == <<"field">>
FILENAME_FIELD == <<FILENAME, FIELD>>
CONCAT_FIELDS == Join(FIELD_SEPARATOR, FILENAME_FIELD)

Pair(a, b) == List(<<Lit(a), Lit(b)>>)

\* VegaRenderer.__init__: self._optional_anchor_ranges, a dict keyed by anchor
\* name.
InitialRanges ==
    [stroke_dash |-> << Pair("1", "0"), Pair("8", "8"), Pair("8", "4"),
                        Pair("4", "4"), Pair("4", "2"), Pair("2", "1"),
                        Pair("1", "1") >>,
     color |-> << S1("#945dd6"), S1("#13adc7"), S1("#f46837"), S1("#48bb78"),
                  S1("#4299e1"), S1("#ed8936"), S1("#f56565") >>,
     shape |-> << S1("square"), S1("circle"), S1("triangle"), S1("diamond") >>]

\* self._optional_anchor_ranges.get(name, [])
RangeOf(rngs, name) == IF name \in DOMAIN rngs THEN rngs[name] ELSE <<>>

RECURSIVE RangeLoopNoRefill(_, _, _, _)
\* A variant that keeps popping after the palette copy is exhausted and so
\* stops assigning.
RangeLoopNoRefill(n, values, full, acc) ==
    IF n = 0 \/ values = <<>> THEN [range |-> acc, err |-> "none"]
    ELSE RangeLoopNoRefill(n - 1, Tail(values), full, Append(acc, Head(values)))

RECURSIVE RangeLoop(_, _, _, _)
\* The loop of _get_optional_anchor_mapping: n iterations left, `values` is
\* anchor_range_values, `full` is full_range_values, `acc` is anchor_range.
RangeLoop(n, values, full, acc) ==
    IF n = 0 THEN [range |-> acc, err |-> "none"]
    ELSE LET refilled == IF values = <<>> THEN full ELSE values
         IN  IF refilled = <<>> THEN [range |-> acc, err |-> "IndexError"]
             ELSE RangeLoop(n - 1, Tail(refilled), full,
                            Append(acc, Head(refilled)))

LEGEND ==
    Dict(<< KV("symbolFillColor", S1("transparent")),
            KV("symbolStrokeColor", S1("grey")) >>)

StrList(strs) == List([i \in 1..Len(strs) |-> Str(strs[i])])

\* A variant without the legend block.
_get_optional_anchor_mapping_plain(rngs, field, name, domain) ==
    LET full == RangeOf(rngs, name)
        loop == RangeLoop(Len(domain), full, full, <<>>)
    IN  [encoding |->
            Dict(<< KV("field", Str(field)),
                    KV("scale", Dict(<< KV("domain", StrList(domain)),
                                        KV("range", List(loop.range)) >>)) >>),
         ranges |-> rngs,
         err |-> loop.err]

\* VegaRenderer._get_optional_anchor_mapping.  The palette is copied before
\* the loop, so `ranges` is what it was.
\* [encoding, ranges, err]
_get_optional_anchor_mapping(rngs, field, name, domain) ==
    LET full == RangeOf(rngs, name)
        loop == RangeLoop(Len(domain), full, full, <<>>)
        legend == IF name # "color" THEN << KV("legend", LEGEND) >> ELSE <<>>
    IN  [encoding |->
            Dict(<< KV("field", Str(field)),
                    KV("scale", Dict(<< KV("domain", StrList(domain)),
                                        KV("range", List(loop.range)) >>)) >>
                 \o legend),
         ranges |-> rngs,
         err |-> loop.err]

\* defn.get(key, default) on a definition (a dict)
GetOr(d, key, default) == IF Has(d, key) THEN Get(d, key) ELSE default

\* The values of `key` over the definitions: varied_values[key]
VariedValues(y_definitions, key) ==
    {Get(y_definitions[i].v, key) : i \in 1..Len(y_definitions)}

\* varied_values[CONCAT_FIELDS]
VariedConcat(y_definitions) ==
    {Join(FIELD_SEPARATOR,
          << GetOr(y_definitions[i].v, FILENAME, Str(<<>>)).v,
             GetOr(y_definitions[i].v, FIELD, Str(<<>>)).v >>)
        : i \in 1..Len(y_definitions)}

\* VegaRenderer._get_domain.  [domain, err]
_get_domain(varied_keys, y_definitions) ==
    IF Len(varied_keys) = 2
    THEN [domain |-> SortedList(VariedConcat(y_definitions)), err |-> "none"]
    ELSE IF varied_keys = <<>>
         THEN [domain |-> <<>>, err |-> "IndexError"]
         ELSE LET vals == VariedValues(y_definitions, varied_keys[1])
              IN  IF \A x \in vals : IsStr(x)
                  THEN [domain |-> SortedList({x.v : x \in vals}), err |-> "none"]
                  ELSE [domain |-> <<>>, err |-> "TypeError"]

\* A variant that never skips a dimension.
VariedKeysAll(y_definitions) == FILENAME_FIELD

\* A variant that prefers a dimension with as many values as there are
\* definitions, filename before field, to the list of all varying dimensions.
VariedKeysPreferred(y_definitions) ==
    LET matching == SelectSeq(FILENAME_FIELD,
                        LAMBDA key : /\ Len(y_definitions) > 1
                                     /\ Cardinality(VariedValues(y_definitions, key))
                                            = Len(y_definitions))
    IN  IF matching # <<>> THEN << matching[1] >>
        ELSE SelectSeq(FILENAME_FIELD,
                       LAMBDA key : Cardinality(VariedValues(y_definitions, key)) # 1)

\* The loop over FILENAME_FIELD of _collect_variations: the dimensions whose
\* set of values has not exactly one member, in the order filename, field.
VariedKeys(y_definitions) ==
    SelectSeq(FILENAME_FIELD,
              LAMBDA key : Cardinality(VariedValues(y_definitions, key)) # 1)

\* VegaRenderer._collect_variations.  [varied_keys, domain, err]
_collect_variations(y_definitions) ==
    LET varied_keys == VariedKeys(y_definitions)
        dom == _get_domain(varied_keys, y_definitions)
    IN  [varied_keys |-> varied_keys, domain |-> dom.domain, err |-> dom.err]

(***************************************************************************)
(* Built-in templates and get_template (vega_templates.py)                 *)
(***************************************************************************)
\* Template.__init__(content, name) of class cls.  `content` is the text
\* given (<<>> when none).  `original` is the content kept for reset().
TemplateInit(content, name, default_content, default_name) ==
    [content |-> IF content # <<>> THEN content ELSE DefaultText(default_content),
     original |-> IF content # <<>> THEN content ELSE DefaultText(default_content),
     name |-> IF name # <<>> THEN name ELSE default_name]

\* Template.reset(): the working content is the original again.
Reset(t) == [t EXCEPT !.content = t.original]

\* A variant in which the filled text also becomes the original.
StoreContentAliased(t, text) == [t EXCEPT !.content = text, !.original = text]

\* self.template.fill_anchor(...) on the renderer's template: the filled text
\* becomes the template's working content.
StoreContent(t, text) == [t EXCEPT !.content = text]

\* The heads of the larger built-in documents: their schema, data and title
\* members and the member that follows; the nested chart description below
\* it holds no member that the catalog reads.
BarContent(y_more) ==
    Dict(<< KV("$schema", S1("https://vega.github.io/schema/vega-lite/v5.json")),
            KV("data", Dict(<< KV("values", Tok("data")) >>)),
            KV("title", Tok("title")),
            KV("width", Lit("300")),
            KV("height", Lit("300")),
            KV("mark", Dict(<< KV("type", S1("bar")) >>)),
            KV("encoding", Dict(<<
                KV("x", Dict(<< KV("field", Tok("x")),
                                KV("type", S1("quantitative")),
                                KV("title", Tok("x_label")),
                                KV("scale", Dict(<< KV("zero", Lit("false")) >>)) >>)),
                KV("y", Dict(<< KV("field", Tok("y")),
                                KV("type", S1("nominal")),
                                KV("title", Tok("y_label")) >> \o y_more)),
                KV("yOffset", Dict(<< KV("field", S1("rev")) >>)),
                KV("color", Dict(<< KV("field", S1("rev")),
                                    KV("type", S1("nominal")) >>)) >>)) >>)

\* BarHorizontalSortedTemplate.DEFAULT_CONTENT, BarHorizontalTemplate.DEFAULT_CONTENT
BarHorizontalSortedContent == BarContent(<< KV("sort", S1("-x")) >>)
BarHorizontalContent == BarContent(<<>>)

HeadContent(more) ==
    Dict(<< KV("$schema", S1("https://vega.github.io/schema/vega-lite/v5.json")),
            KV("data", Dict(<< KV("values", Tok("data")) >>)),
            KV("title", Tok("title")) >> \o more)

Facet == KV("facet", Dict(<< KV("field", S1("rev")), KV("type", S1("nominal")) >>))
Size == << KV("width", Lit("300")), KV("height", Lit("300")) >>

ConfusionContent ==
    HeadContent(<< Facet, KV("spec", Dict(<< KV("groupby", List(<< Tok("y"), Tok("x") >>)) >>)) >>)
NormalizedConfusionContent ==
    HeadContent(<< Facet, KV("spec", Dict(<< KV("groupby", List(<< S1("rev"), Tok("x") >>)) >>)) >>)
ScatterContent == HeadContent(Size \o << KV("layer", List(<< Dict(<< KV("mark", S1("point")) >>) >>)) >>)
SmoothContent == HeadContent(Size \o << KV("params", List(<< Dict(<< KV("name", S1("smooth")) >>) >>)) >>)

\* TEMPLATES: the classes of the built-in templates, in the list's order.
\* SimpleLinearTemplate inherits LinearTemplate's DEFAULT_CONTENT.
TEMPLATES ==
    << [DEFAULT_NAME |-> <<"simple">>, DEFAULT_CONTENT |-> LinearContent],
       [DEFAULT_NAME |-> <<"linear">>, DEFAULT_CONTENT |-> LinearContent],
       [DEFAULT_NAME |-> <<"confusion">>, DEFAULT_CONTENT |-> ConfusionContent],
       [DEFAULT_NAME |-> <<"confusion_normalized">>, DEFAULT_CONTENT |-> NormalizedConfusionContent],
       [DEFAULT_NAME |-> <<"scatter">>, DEFAULT_CONTENT |-> ScatterContent],
       [DEFAULT_NAME |-> <<"smooth">>, DEFAULT_CONTENT |-> SmoothContent],
       [DEFAULT_NAME |-> <<"bar_horizontal_sorted">>, DEFAULT_CONTENT |-> BarHorizontalSortedContent],
       [DEFAULT_NAME |-> <<"bar_horizontal">>, DEFAULT_CONTENT |-> BarHorizontalContent] >>

\* template_cls(): an instance of a built-in class
Instance(template_cls) ==
    TemplateInit(<<>>, <<>>, template_cls.DEFAULT_CONTENT, template_cls.DEFAULT_NAME)

\* The instances template_cls() gives, by position in TEMPLATES.
Instances == [i \in 1..Len(TEMPLATES) |-> Instance(TEMPLATES[i])]

LinearTemplate == Instances[2]

NoTemplate == [content |-> <<>>, original |-> <<>>, name |-> <<>>]

\* The template argument of the renderer: None, a Template instance, or a
\* name.
ArgNone == [k |-> "z", v |-> NoTemplate]
ArgInstance(t) == [k |-> "t", v |-> t]
ArgName(name) == [k |-> "s", v |-> [NoTemplate EXCEPT !.name = name]]

\* Paths are sequences of symbols: directory names, the separator, a stem
\* and suffixes (symbols that begin with a dot).
SEP == "/"
JSON == ".json"
Suffixes == {".json", ".tsv", ".v1"}

\* Path(template_dir) / name
Div(dir, name) == dir \o <<SEP>> \o name

\* PurePath.with_suffix(suffix): the last suffix of the final component is
\* replaced; a component without a suffix gets the suffix appended.
with_suffix(path, suffix) ==
    IF path # <<>> /\ path[Len(path)] \in Suffixes
    THEN SubSeq(path, 1, Len(path) - 1) \o <<suffix>>
    ELSE path \o <<suffix>>

\* A variant that looks for the ".json" file first.
_find_template_suffix_first(template_name, template_dir, files) ==
    IF template_dir # <<>> /\ with_suffix(Div(template_dir, template_name), JSON) \in DOMAIN files
    THEN with_suffix(Div(template_dir, template_name), JSON)
    ELSE IF template_dir # <<>> /\ Div(template_dir, template_name) \in DOMAIN files
         THEN Div(template_dir, template_name)
         ELSE IF template_name \in DOMAIN files THEN template_name ELSE <<>>

\* _find_template: the path of the template file, <<>> when there is none.
_find_template(template_name, template_dir, files) ==
    IF template_dir # <<>> /\ Div(template_dir, template_name) \in DOMAIN files
    THEN Div(template_dir, template_name)
    ELSE IF template_dir # <<>>
            /\ with_suffix(Div(template_dir, template_name), JSON) \in DOMAIN files
         THEN with_suffix(Div(template_dir, template_name), JSON)
         ELSE IF template_name \in DOMAIN files THEN template_name ELSE <<>>

\* The loop over TEMPLATES of get_template: the first class whose
\* DEFAULT_NAME is the name, 0 when there is none.
BuiltIn(name) ==
    IF \E i \in 1..Len(TEMPLATES) : TEMPLATES[i].DEFAULT_NAME = name
    THEN CHOOSE i \in 1..Len(TEMPLATES) :
            /\ TEMPLATES[i].DEFAULT_NAME = name
            /\ \A j \in 1..(i - 1) : TEMPLATES[j].DEFAULT_NAME # name
    ELSE 0

\* get_template.  [found, template]
get_template(arg, template_dir, files) ==
    IF arg.k = "t" THEN [found |-> TRUE, template |-> arg.v]
    ELSE LET name == IF arg.k = "z" THEN <<"linear">> ELSE arg.v.name
             path == _find_template(name, template_dir, files)
         IN  IF path # <<>>
             THEN [found |-> TRUE,
                   template |-> TemplateInit(files[path], name, None, <<>>)]
             ELSE IF BuiltIn(name) # 0
                  THEN [found |-> TRUE, template |-> Instances[BuiltIn(name)]]
                  ELSE [found |-> FALSE, template |-> NoTemplate]

\* Template.filename
Filename(t) == with_suffix(t.name, JSON)

\* dump_templates(output, targets): one pass over the selected classes, in
\* the order of TEMPLATES.  An existing file is read and compared, a
\* missing one is written; a difference raises and ends the loop.
\* [files, err, at]
RECURSIVE DumpLoop(_, _, _)
DumpLoop(classes, output, fs) ==
    IF classes = <<>> THEN [files |-> fs, err |-> "none", at |-> <<>>]
    ELSE LET t == Instances[Head(classes)]
             path == Div(output, Filename(t))
         IN  IF path \in DOMAIN fs
             THEN IF fs[path] # t.content
                  THEN [files |-> fs, err |-> "TemplateContentDoesNotMatch", at |-> path]
                  ELSE DumpLoop(Tail(classes), output, fs)
             ELSE DumpLoop(Tail(classes), output,
                           [p \in DOMAIN fs \cup {path} |->
                               IF p = path THEN t.content ELSE fs[p]])

\* The positions in TEMPLATES of the classes a dump selects: those named in
\* `targets`, all of them when `targets` is empty.
Selected(targets) ==
    SelectSeq([i \in 1..Len(TEMPLATES) |-> i],
              LAMBDA i : targets = {} \/ TEMPLATES[i].DEFAULT_NAME \in targets)

\* A variant that writes every file, whatever is there.
dump_templates_overwrite(output, targets, fs) ==
    LET all == Selected(targets)
        paths == {Div(output, Filename(Instances[all[i]])) : i \in 1..Len(all)}
    IN  [files |-> [p \in DOMAIN fs \cup paths |->
                      IF p \in paths
                      THEN Instances[all[CHOOSE i \in 1..Len(all) :
                                        Div(output, Filename(Instances[all[i]])) = p]].content
                      ELSE fs[p]],
         err |-> "none", at |-> <<>>]

\* dump_templates: `targets` is the set of names asked for, {} for none.
dump_templates(output, targets, fs) == DumpLoop(Selected(targets), output, fs)

(***************************************************************************)
(* VegaRenderer: the steps of a fill pass (vega.py)                        *)
(***************************************************************************)
Remove(list, name) ==
    LET i == CHOOSE j \in 1..Len(list) : list[j] = name /\ \A h \in 1..(j - 1) : list[h] # name
    IN  SubSeq(list, 1, i - 1) \o SubSeq(list, i + 1, Len(list))

\* dict.setdefault(key, val)
SetDefault(d, key, val) == IF Has(d, key) THEN d ELSE Append(d, <<key, val>>)

\* bool(value) of a property value
Truthy(x) == ~IsNone(x) /\ x.v # <<>>

\* properties["data"] is the list object self.datapoints itself.
DataRef == [k |-> "r", v |-> <<>>]

\* VegaRenderer._set_split_content
_set_split_content(content, name, value) ==
    Put(content, anchor(name),
        IF IsStr(value) THEN value ELSE Str(Dumps(value, FALSE, FALSE, 0)))

\* A frame is what the optional-anchor helpers read and write:
\* [optional_anchors, content, split_content].

\* A variant that leaves the handled name in the list.
_fill_optional_anchor_keep(f, split_anchors, name, value) ==
    IF name \notin Range(f.optional_anchors) THEN f
    ELSE IF name \in Range(split_anchors) THEN f
         ELSE [f EXCEPT !.content = fill_anchor(@, name, value)]

\* VegaRenderer._fill_optional_anchor
_fill_optional_anchor(f, split_anchors, name, value) ==
    IF name \notin Range(f.optional_anchors) THEN f
    ELSE LET g == [f EXCEPT !.optional_anchors = Remove(@, name)]
         IN  IF name \in Range(split_anchors) THEN g
             ELSE [g EXCEPT !.content = fill_anchor(@, name, value)]

\* A variant that fills in place whatever split_anchors names.
_fill_optional_anchor_mapping_in_place(f, rngs, split_anchors, field, name, domain) ==
    IF name \notin Range(f.optional_anchors) THEN f
    ELSE [f EXCEPT !.optional_anchors = Remove(@, name),
                   !.content = fill_anchor(@, name,
                        _get_optional_anchor_mapping(rngs, field, name, domain).encoding)]

\* VegaRenderer._fill_optional_anchor_mapping
_fill_optional_anchor_mapping(f, rngs, split_anchors, field, name, domain) ==
    IF name \notin Range(f.optional_anchors) THEN f
    ELSE LET g == [f EXCEPT !.optional_anchors = Remove(@, name)]
             encoding == _get_optional_anchor_mapping(rngs, field, name, domain).encoding
         IN  IF name \in Range(split_anchors)
             THEN [g EXCEPT !.split_content = _set_split_content(@, name, encoding)]
             ELSE [g EXCEPT !.content = fill_anchor(@, name, encoding)]

ZOOM_AND_PAN ==
    Dict(<< KV("name", S1("grid")), KV("select", S1("interval")),
            KV("bind", S1("scales")) >>)

\* VegaRenderer._fill_zoom_and_pan
_fill_zoom_and_pan(f, split_anchors) ==
    IF "zoom_and_pan" \notin Range(f.optional_anchors) THEN f
    ELSE LET g == [f EXCEPT !.optional_anchors = Remove(@, "zoom_and_pan")]
         IN  IF "zoom_and_pan" \in Range(split_anchors)
             THEN [g EXCEPT !.split_content =
                        _set_split_content(@, "zoom_and_pan", ZOOM_AND_PAN)]
             ELSE [g EXCEPT !.content = fill_anchor(@, "zoom_and_pan", ZOOM_AND_PAN)]

\* VegaRenderer.get_revs
get_revs(props) ==
    IF Has(props, <<"anchor_revs">>)
    THEN LET revs == Get(props, <<"anchor_revs">>).v
         IN  [i \in 1..Len(revs) |-> revs[i].v]
    ELSE <<>>

\* The pivot_field expression over the grouping keys.
PivotExpr(keys) ==
    Join(<<" + '::' + ">>, [i \in 1..Len(keys) |-> <<"datum.">> \o keys[i]])

RECURSIVE FillEach(_, _)
\* for anchor in optional_anchors: self.template.fill_anchor(anchor, {})
FillEach(content, names) ==
    IF names = <<>> THEN content
    ELSE FillEach(fill_anchor(content, Head(names), Dict(<<>>)), Tail(names))

\* One iteration of the loop of _update_datapoints on one datapoint.
UpdateOne(datapoint, to_concatenate, to_remove) ==
    LET joined ==
            IF to_concatenate = <<>> THEN datapoint
            ELSE Put(datapoint, Join(FIELD_SEPARATOR, to_concatenate),
                     Str(Join(FIELD_SEPARATOR,
                              [i \in 1..Len(to_concatenate) |->
                                  Get(datapoint, to_concatenate[i]).v])))
    IN  SelectSeq(joined, LAMBDA item : item[1] \notin Range(to_remove))

\* A variant that removes nothing unless both dimensions vary.
ToRemoveVariedOnly(keys) == IF Len(keys) = 2 THEN keys ELSE <<>>

\* to_remove of _update_datapoints
ToRemove(keys) ==
    IF Len(keys) = 2 THEN keys
    ELSE SelectSeq(FILENAME_FIELD, LAMBDA key : key \notin Range(keys))

\* VegaRenderer._update_datapoints.  varied_keys is None or a list.  str.join
\* raises TypeError on a datapoint that lacks a key to concatenate (or holds a
\* non-string there); the datapoints before it have been updated by then.
\* [datapoints, err]
_update_datapoints(dps, keys) ==
    IF IsNone(keys) THEN [datapoints |-> dps, err |-> "none"]
    ELSE LET to_concatenate == IF Len(keys.v) = 2 THEN keys.v ELSE <<>>
             to_remove == ToRemove(keys.v)
             bad == {i \in 1..Len(dps) :
                        \E j \in 1..Len(to_concatenate) :
                            ~IsStr(Get(dps[i], to_concatenate[j]))}
             stop == IF bad = {} THEN Len(dps) + 1
                     ELSE CHOOSE b \in bad : \A c \in bad : b <= c
         IN  [datapoints |->
                 [i \in 1..Len(dps) |->
                     IF i < stop THEN UpdateOne(dps[i], to_concatenate, to_remove)
                     ELSE dps[i]],
              err |-> IF bad = {} THEN "none" ELSE "TypeError"]

OPTIONAL_ANCHORS ==
    << "color", "group_by_x", "group_by_y", "group_by", "pivot_field", "row",
       "shape", "stroke_dash", "zoom_and_pan" >>

\* A variant of the loop that fills the data anchor first.
REQUIRED_NAMES_data_first == << "data", "title", "x", "y", "x_label", "y_label" >>

REQUIRED_NAMES == << "title", "x", "y", "x_label", "y_label", "data" >>

PARTIAL_SPLIT_ANCHORS ==
    << "color", "data", "shape", "stroke_dash", "title", "x_label", "y_label",
       "zoom_and_pan" >>

(***************************************************************************)
(* State                                                                   *)
(***************************************************************************)
VARIABLES
    files,             \* the template files on disk: path -> text
    template,          \* renderer.template: [content, original, name]
    datapoints,        \* renderer.datapoints, a list of dicts
    properties,        \* renderer.properties, a dict
    ranges,            \* renderer._optional_anchor_ranges
    split_content,     \* renderer._split_content
    pc,                \* where the renderer is in its current call
    call,              \* the arguments of the current call
    optional_anchors,  \* the list of pending optional anchors of the pass
    varied_keys,       \* what _process_optional_anchors returned (None or a list)
    domain,            \* the domain _collect_variations returned
    idx,               \* index into REQUIRED_NAMES of the required-anchor loop
    result,            \* what the last finished call returned or raised
    history,           \* the finished calls: their arguments and results
    given,             \* the constructor's arguments, and the datapoints and
                       \* content at the entry of the current call
    suspended,         \* the renderer of the thread that is not running
    alone              \* the call and the result of a render that ran alone

vars ==
    << files, template, datapoints, properties, ranges, split_content, pc, call,
       optional_anchors, varied_keys, domain, idx, result, history, given,
       suspended, alone >>

\* What the steps of a render do not touch: the files and the other thread.
world == << files, suspended, alone >>

(***************************************************************************)
(* Bounded inputs                                                          *)
(***************************************************************************)
MaxPoints == 2
MaxCalls == 2

Row(rev, filename, field, step, acc) ==
    << KV("rev", S1(rev)), KV("filename", S1(filename)), KV("field", S1(field)),
       KV("step", Lit(step)), KV("acc", Lit(acc)) >>

\* The rows the datapoints are taken from.
Rows ==
    << Row("B", "test", "acc", "1", "0"), Row("C", "train", "loss", "2", "1"),
       Row("B", "train", "acc", "0", "2"), Row("D", "test", "loss", "1", "1") >>

Reverse(s) == [i \in 1..Len(s) |-> s[Len(s) + 1 - i]]

\* The datapoint lists tried: the first n rows, in both orders.
DatapointLists ==
    UNION { { SubSeq(Rows, 1, n), Reverse(SubSeq(Rows, 1, n)) } :
                n \in 0..(IF MaxPoints < Len(Rows) THEN MaxPoints ELSE Len(Rows)) }

Defn(filename, field) == Dict(<< KV("filename", S1(filename)), KV("field", S1(field)) >>)

DefinitionLists ==
    { <<>>,
      << Defn("test", "acc") >>,
      << Defn("test", "acc"), Defn("train", "acc") >>,
      << Defn("test", "acc"), Defn("test", "loss") >>,
      << Defn("test", "acc"), Defn("train", "loss") >>,
      << Defn("test", "acc"), Defn("test", "acc") >> }

\* A custom template with every optional anchor, the data anchor nested, the
\* color anchor at two places and the x and y anchors inside a longer string.
FullContent ==
    Dict(<< KV("spec", Dict(<< KV("data", Dict(<< KV("values", Tok("data")) >>)) >>)),
            KV("title", Tok("title")),
            KV("params", List(<< Tok("zoom_and_pan") >>)),
            KV("transform", List(<<
                Dict(<< KV("calculate",
                           Str(<<"pow(datum.">> \o anchor("y") \o <<" - datum.">>
                               \o anchor("x") \o <<",2)">>)),
                        KV("groupby", Tok("group_by")) >>),
                Dict(<< KV("groupby", Tok("group_by_x")), KV("key", Tok("group_by_y")) >>),
                Dict(<< KV("pivot", Tok("pivot_field")) >>) >>)),
            KV("encoding", Dict(<<
                KV("x", Dict(<< KV("field", Tok("x")), KV("title", Tok("x_label")) >>)),
                KV("y", Dict(<< KV("field", Tok("y")), KV("title", Tok("y_label")) >>)),
                KV("color", Tok("color")),
                KV("strokeDash", Tok("stroke_dash")),
                KV("shape", Tok("shape")),
                KV("row", Tok("row")) >>)),
            KV("layer", List(<< Dict(<< KV("color", Tok("color")) >>) >>)) >>)

\* A custom template that does not declare the data anchor.
NoDataContent ==
    Dict(<< KV("repeat", List(<< S1("quintile") >>)),
            KV("spec", Dict(<< KV("data", Dict(<< KV("values", S1("BAD_ANCHOR")) >>)) >>)),
            KV("encoding", Dict(<< KV("x", Dict(<< KV("field", Tok("x")) >>)),
                                   KV("color", Tok("color")) >>)) >>)

\* The text of a template file written with json.dumps(content).
FileText(tree) == Dumps(tree, FALSE, FALSE, 0)

FullTemplate == TemplateInit(FileText(FullContent), <<"full">>, None, <<>>)
NoDataTemplate == TemplateInit(FileText(NoDataContent), <<"nodata">>, None, <<>>)

TemplateArgs ==
    { ArgNone, ArgInstance(FullTemplate), ArgInstance(NoDataTemplate),
      ArgName(<<"nope">>) }

Opt(key, values) == {<<>>} \cup { << <<(<<key>>), v>> >> : v \in values }

\* The properties the caller passes, in three families: one varies the axis
\* fields, one the series definitions, one the revisions.
AxisProperties ==
    { x \o y :
        x \in Opt("x", {S1("step"), Str(<<"foo", ".", "bar">>)}),
        y \in { << KV("y", S1("acc")) >>, << KV("y", S1("val")) >> } }

SeriesProperties ==
    { << KV("x", S1("step")), KV("y", S1("acc")) >> \o d :
        d \in { << KV("anchors_y_definitions", List(l)) >> : l \in DefinitionLists } }

RevisionProperties ==
    { << KV("x", S1("step")), KV("y", S1("acc")), KV("title", S1("foo")) >> \o r :
        r \in { << KV("anchor_revs", StrList(<< <<"B">>, <<"C">>, <<"D">> >>)) >>,
                << KV("revs_with_datapoints", StrList(<< <<"D">>, <<"C">>, <<"B">> >>)) >> } }

PropertySets == AxisProperties \cup SeriesProperties \cup RevisionProperties

\* The arguments of get_filled_template that are tried.
CallArgs ==
    { [method |-> "filled", split_anchors |-> <<>>, strict |-> TRUE, as_string |-> TRUE],
      [method |-> "filled", split_anchors |-> <<>>, strict |-> FALSE, as_string |-> FALSE],
      [method |-> "filled",
       split_anchors |-> << "x", "group_by", "pivot_field", "row", "shape" >>,
       strict |-> TRUE, as_string |-> TRUE] }

(***************************************************************************)
(* Results                                                                 *)
(***************************************************************************)
NoResult == [kind |-> "none", error |-> "", value |-> <<>>, deferred |-> <<>>]
Raised(e) == [kind |-> "raised", error |-> e, value |-> <<>>, deferred |-> <<>>]
\* return {}
ReturnedEmpty(d) == [kind |-> "empty", error |-> "", value |-> <<>>, deferred |-> d]
ReturnedSpec(text, d) == [kind |-> "spec", error |-> "", value |-> text, deferred |-> d]

NoCall == [method |-> "", split_anchors |-> <<>>, strict |-> TRUE, as_string |-> TRUE]

\* No second renderer, and no render that ran alone.
NoRenderer ==
    [id |-> "none", template |-> NoTemplate, datapoints |-> <<>>, properties |-> <<>>,
     ranges |-> InitialRanges, split_content |-> <<>>, pc |-> "new", call |-> NoCall,
     optional_anchors |-> <<>>, varied_keys |-> None, domain |-> <<>>, idx |-> 0,
     result |-> NoResult, history |-> <<>>,
     given |-> [template |-> ArgNone, datapoints |-> <<>>, properties |-> <<>>,
                entry_datapoints |-> <<>>]]
NotRun == [call |-> NoCall, result |-> NoResult, overlapped |-> FALSE]

Init ==
    /\ files = <<>>
    /\ suspended = NoRenderer
    /\ alone = NotRun
    /\ template = NoTemplate
    /\ datapoints = <<>>
    /\ properties = <<>>
    /\ ranges = InitialRanges
    /\ split_content = <<>>
    /\ pc = "new"
    /\ call = NoCall
    /\ optional_anchors = <<>>
    /\ varied_keys = None
    /\ domain = <<>>
    /\ idx = 0
    /\ result = NoResult
    /\ history = <<>>
    /\ given = [template |-> ArgNone, datapoints |-> <<>>, properties |-> <<>>,
                entry_datapoints |-> <<>>]

(***************************************************************************)
(* Actions of the renderer                                                 *)
(***************************************************************************)
passVars == << optional_anchors, varied_keys, domain, idx >>

Frame ==
    [optional_anchors |-> optional_anchors, content |-> template.content,
     split_content |-> split_content]

SetFrame(f) ==
    /\ optional_anchors' = f.optional_anchors
    /\ template' = StoreContent(template, f.content)
    /\ split_content' = f.split_content

\* The call ends: it returns or raises `res`.
Finish(c, res) ==
    /\ result' = res
    /\ history' = Append(history, [call |-> c, result |-> res])
    /\ pc' = "idle"

\* VegaRenderer(datapoints, name, **properties): Renderer.__init__ and
\* get_template; TemplateNotFoundError leaves no renderer.
Construct ==
    /\ pc = "new"
    /\ \E arg \in TemplateArgs, dps \in DatapointLists, props \in PropertySets :
        LET got == get_template(arg, <<>>, files)
        IN  /\ given' = [template |-> arg, datapoints |-> dps, properties |-> props,
                         entry_datapoints |-> dps]
            /\ IF got.found
               THEN /\ template' = got.template
                    /\ datapoints' = dps
                    /\ properties' = props
                    /\ pc' = "idle"
                    /\ result' = result
               ELSE /\ pc' = "failed"
                    /\ result' = Raised("TemplateNotFound")
                    /\ UNCHANGED << template, datapoints, properties >>
    /\ ranges' = InitialRanges
    /\ split_content' = <<>>
    /\ UNCHANGED << world, call, passVars, history >>

\* A variant that never takes the early return.
IsEmptyNever(dps) == FALSE

\* Line 78: not self.datapoints
IsEmpty(dps) == dps = <<>>

\* The entry of get_filled_template (lines 77-82): reset, and the early
\* return on empty datapoints.
Enter(args) ==
    /\ pc = "idle"
    /\ Len(history) < MaxCalls
    /\ call' = args
    /\ template' = Reset(template)
    /\ given' = [given EXCEPT !.entry_datapoints = datapoints]
    /\ optional_anchors' = <<>>
    /\ varied_keys' = None
    /\ domain' = <<>>
    /\ idx' = 0
    /\ IF IsEmpty(datapoints)
       THEN Finish(args, ReturnedEmpty(IF args.method = "partial" THEN split_content ELSE <<>>))
       ELSE /\ pc' = "validate"
            /\ UNCHANGED << result, history >>
    /\ UNCHANGED << world, datapoints, properties, ranges, split_content >>

\* renderer.get_filled_template(split_anchors, strict, as_string)
GetFilledTemplate ==
    \E args \in CallArgs : Enter(args)

\* renderer.get_partial_filled_template()
GetPartialFilledTemplate ==
    Enter([method |-> "partial", split_anchors |-> PARTIAL_SPLIT_ANCHORS,
           strict |-> TRUE, as_string |-> TRUE])

\* A variant of the field validation that checks x only.
ValidationFailsXOnly(strict, props, dps) ==
    /\ strict
    /\ Truthy(Get(props, <<"x">>))
    /\ ~check_field_exists(dps, Get(props, <<"x">>).v)

\* Lines 84-92: TRUE when the strict validation raises NoFieldInDataError.
ValidationFails(strict, props, dps) ==
    /\ strict
    /\ \/ /\ Truthy(Get(props, <<"x">>))
          /\ ~check_field_exists(dps, Get(props, <<"x">>).v)
       \/ /\ Truthy(Get(props, <<"y">>))
          /\ ~check_field_exists(dps, Get(props, <<"y">>).v)

\* Lines 93-96
WithDefaults(props) ==
    LET a == SetDefault(props, <<"title">>, Str(<<>>))
        b == SetDefault(a, <<"x_label">>, Get(a, <<"x">>))
        c == SetDefault(b, <<"y_label">>, Get(b, <<"y">>))
    IN  SetDefault(c, <<"data">>, DataRef)

\* Lines 84-96: strict validation, then the defaults of the properties.
Validate ==
    /\ pc = "validate"
    /\ IF ValidationFails(call.strict, properties, datapoints)
       THEN /\ Finish(call, Raised("NoFieldInData"))
            /\ UNCHANGED properties
       ELSE /\ properties' = WithDefaults(properties)
            /\ pc' = "optional"
            /\ UNCHANGED << result, history >>
    /\ UNCHANGED << world, template, datapoints, ranges, split_content, call,
                    passVars, given >>

\* _process_optional_anchors, lines 202-218: the optional anchors the
\* template declares; with none it returns None.
ProcessOptionalAnchors ==
    /\ pc = "optional"
    /\ optional_anchors' =
          SelectSeq(OPTIONAL_ANCHORS, LAMBDA a : has_anchor(template.content, a))
    /\ pc' = IF optional_anchors' = <<>> THEN "update" ELSE "color"
    /\ varied_keys' = None
    /\ UNCHANGED << world, template, datapoints, properties, ranges, split_content,
                    call, domain, idx, result, history, given >>

\* _fill_color
FillColor ==
    /\ pc = "color"
    /\ SetFrame(_fill_optional_anchor_mapping(Frame, ranges, call.split_anchors,
                                              <<"rev">>, "color", get_revs(properties)))
    /\ pc' = "zoom_and_pan"
    /\ UNCHANGED << world, datapoints, properties, ranges, call, varied_keys, domain,
                    idx, result, history, given >>

\* _fill_zoom_and_pan
FillZoomAndPan ==
    /\ pc = "zoom_and_pan"
    /\ SetFrame(_fill_zoom_and_pan(Frame, call.split_anchors))
    /\ pc' = "resolve"
    /\ UNCHANGED << world, datapoints, properties, ranges, call, varied_keys, domain,
                    idx, result, history, given >>

\* self.properties.get("anchors_y_definitions", [])
YDefinitions(props) ==
    IF Has(props, <<"anchors_y_definitions">>)
    THEN Get(props, <<"anchors_y_definitions">>).v ELSE <<>>

IsSingleSource(props) == Len(YDefinitions(props)) <= 1

\* A variant that groups by the joined name of the varied keys.
GroupedKeysJoined(keys) ==
    << <<"rev">> >> \o (IF IsNone(keys) \/ keys.v = <<>> THEN <<>>
                        ELSE << Join(FIELD_SEPARATOR, keys.v) >>)

\* ["rev", *varied_keys]
GroupedKeys(keys) == << <<"rev">> >> \o (IF IsNone(keys) THEN <<>> ELSE keys.v)

\* Lines 223-232 and 274, 312: single source or not; for several sources
\* _collect_variations, which raises IndexError when no dimension varies.
ResolveVariation ==
    /\ pc = "resolve"
    /\ IF IsSingleSource(properties)
       THEN /\ varied_keys' = List(<<>>)
            /\ domain' = <<>>
            /\ pc' = "group_by"
            /\ UNCHANGED << result, history >>
       ELSE LET v == _collect_variations(YDefinitions(properties))
            IN  IF v.err # "none"
                THEN /\ Finish(call, Raised(v.err))
                     /\ UNCHANGED << varied_keys, domain >>
                ELSE /\ varied_keys' = List(v.varied_keys)
                     /\ domain' = v.domain
                     /\ pc' = IF optional_anchors = <<>> THEN "update" ELSE "group_by"
                     /\ UNCHANGED << result, history >>
    /\ UNCHANGED << world, template, datapoints, properties, ranges, split_content,
                    call, optional_anchors, idx, given >>

FillOptionalStep(at, name, value, next) ==
    /\ pc = at
    /\ SetFrame(_fill_optional_anchor(Frame, call.split_anchors, name, value))
    /\ pc' = next
    /\ UNCHANGED << world, datapoints, properties, ranges, call, varied_keys, domain,
                    idx, result, history, given >>

\* _fill_group_by, first call
FillGroupBy ==
    FillOptionalStep("group_by", "group_by", StrList(GroupedKeys(varied_keys)),
                     "group_by_x")

\* _fill_group_by, second call
FillGroupByX ==
    FillOptionalStep("group_by_x", "group_by_x",
                     List(StrList(GroupedKeys(varied_keys)).v
                          \o << Get(properties, <<"x">>) >>),
                     "group_by_y")

\* _fill_group_by, third call
FillGroupByY ==
    FillOptionalStep("group_by_y", "group_by_y",
                     List(StrList(GroupedKeys(varied_keys)).v
                          \o << Get(properties, <<"y">>) >>),
                     "pivot_field")

\* pivot_field, lines 262-264 and 318-323
FillPivotField ==
    FillOptionalStep("pivot_field", "pivot_field",
                     Str(PivotExpr(GroupedKeys(varied_keys))),
                     IF IsSingleSource(properties) THEN "remaining" ELSE "row")

\* _process_single_source_plot, lines 265-266: the anchors still pending are
\* filled with {}; the list is left as it is.
FillRemaining ==
    /\ pc = "remaining"
    /\ template' = StoreContent(template, FillEach(template.content, optional_anchors))
    /\ pc' = "update"
    /\ UNCHANGED << world, datapoints, properties, ranges, split_content, call,
                    passVars, result, history, given >>

ConcatField(keys) == Join(FIELD_SEPARATOR, keys.v)

\* row, lines 325-331
FillRow ==
    FillOptionalStep("row", "row",
                     Dict(<< KV("field", Str(ConcatField(varied_keys))) >>),
                     IF optional_anchors' = <<>> THEN "update" ELSE "stroke_dash")

FillMappingStep(at, name, next) ==
    /\ pc = at
    /\ SetFrame(_fill_optional_anchor_mapping(Frame, ranges, call.split_anchors,
                                              ConcatField(varied_keys), name, domain))
    /\ pc' = next
    /\ UNCHANGED << world, datapoints, properties, ranges, call, varied_keys, domain,
                    idx, result, history, given >>

\* lines 333-336, anchor = "stroke_dash"
FillStrokeDash == FillMappingStep("stroke_dash", "stroke_dash", "shape")

\* lines 333-336, anchor = "shape"
FillShape == FillMappingStep("shape", "shape", "update")

\* Line 99: self._update_datapoints(varied_keys)
UpdateDatapoints ==
    /\ pc = "update"
    /\ LET u == _update_datapoints(datapoints, varied_keys)
       IN  /\ datapoints' = u.datapoints
           /\ IF u.err # "none"
              THEN /\ Finish(call, Raised(u.err))
                   /\ idx' = idx
              ELSE /\ pc' = "required"
                   /\ idx' = 1
                   /\ UNCHANGED << result, history >>
    /\ UNCHANGED << world, template, properties, ranges, split_content, call,
                    optional_anchors, varied_keys, domain, given >>

\* A variant in which the data are the first datapoint only.
PropertyValueFirstOnly(props, dps, name) ==
    LET value == Get(props, <<name>>)
    IN  IF value.k = "r" THEN List(<< Dict(dps[1]) >>) ELSE value

\* A variant in which two renderers hold one datapoint list, that of the
\* other thread.
PropertyValueShared(props, dps, name) ==
    LET value == Get(props, <<name>>)
        list == IF suspended.id = "none" THEN dps ELSE suspended.datapoints
    IN  IF value.k = "r" THEN List([i \in 1..Len(list) |-> Dict(list[i])]) ELSE value

\* self.properties.get(name); properties["data"] is self.datapoints
PropertyValue(props, dps, name) ==
    LET value == Get(props, <<name>>)
    IN  IF value.k = "r" THEN List([i \in 1..Len(dps) |-> Dict(dps[i])]) ELSE value

\* Lines 102-120: one iteration of the loop over the required names.
FillRequired ==
    /\ pc = "required"
    /\ LET name == REQUIRED_NAMES[idx]
           value == PropertyValue(properties, datapoints, name)
           next == IF idx = Len(REQUIRED_NAMES) THEN "return" ELSE "required"
           step == /\ pc' = next
                   /\ idx' = IF idx = Len(REQUIRED_NAMES) THEN idx ELSE idx + 1
                   /\ UNCHANGED << result, history >>
       IN  IF IsNone(value)
           THEN step /\ UNCHANGED << template, split_content >>
           ELSE IF name \in Range(call.split_anchors)
           THEN /\ split_content' = _set_split_content(split_content, name, value)
                /\ step
                /\ UNCHANGED template
           ELSE IF name = "data" /\ ~has_anchor(template.content, name)
           THEN /\ Finish(call, Raised("BadTemplate"))
                /\ UNCHANGED << template, split_content, idx >>
           ELSE /\ template' =
                     StoreContent(template,
                         fill_anchor(template.content, name,
                                     IF name \in {"x", "y"}
                                     THEN Str(escape_special_characters(value.v))
                                     ELSE value))
                /\ step
                /\ UNCHANGED split_content
    /\ UNCHANGED << world, datapoints, properties, ranges, call, optional_anchors,
                    varied_keys, domain, given >>

\* Lines 122-125, and line 144 for get_partial_filled_template.
Return ==
    /\ pc = "return"
    /\ Finish(call, ReturnedSpec(IF call.as_string
                           THEN Dumps(Str(template.content), FALSE, FALSE, 0)
                           ELSE template.content,
                           IF call.method = "partial" THEN split_content ELSE <<>>))
    /\ UNCHANGED << world, template, datapoints, properties, ranges, split_content,
                    call, passVars, given >>

Next ==
    \/ Construct
    \/ GetFilledTemplate
    \/ GetPartialFilledTemplate
    \/ Validate
    \/ ProcessOptionalAnchors
    \/ FillColor
    \/ FillZoomAndPan
    \/ ResolveVariation
    \/ FillGroupBy
    \/ FillGroupByX
    \/ FillGroupByY
    \/ FillPivotField
    \/ FillRemaining
    \/ FillRow
    \/ FillStrokeDash
    \/ FillShape
    \/ UpdateDatapoints
    \/ FillRequired
    \/ Return

Spec == Init /\ [][Next]_vars

(***************************************************************************)
(* Template operations on their own: fills and resets of one template      *)
(***************************************************************************)
MaxOps == 4

FillNames == { "y", "color", "data" }

FillValues == { S1("lab"), Dict(<< KV("field", S1("rev")) >>) }

InitTemplate ==
    /\ files = <<>>
    /\ suspended = NoRenderer
    /\ alone = NotRun
    /\ template \in { LinearTemplate, FullTemplate, NoDataTemplate }
    /\ datapoints = <<>>
    /\ properties = <<>>
    /\ ranges = InitialRanges
    /\ split_content = <<>>
    /\ pc = "template"
    /\ call = NoCall
    /\ optional_anchors = <<>>
    /\ varied_keys = None
    /\ domain = <<>>
    /\ idx = 0
    /\ result = NoResult
    /\ history = <<>>
    /\ given = [template |-> ArgInstance(template), datapoints |-> <<>>,
                properties |-> <<>>, entry_datapoints |-> <<>>]

TemplateUnchanged ==
    UNCHANGED << world, datapoints, properties, ranges, split_content, pc, call,
                 passVars, result, given >>

\* template.fill_anchor(name, value)
TemplateFill ==
    /\ pc = "template"
    /\ Len(history) < MaxOps
    /\ \E name \in FillNames, value \in FillValues :
        /\ template' = StoreContent(template, fill_anchor(template.content, name, value))
        /\ history' = Append(history, [op |-> "fill", name |-> name, value |-> value,
                                       before |-> template.content,
                                       content |-> template'.content])
    /\ TemplateUnchanged

\* template.reset()
TemplateReset ==
    /\ pc = "template"
    /\ Len(history) < MaxOps
    /\ template' = Reset(template)
    /\ history' = Append(history, [op |-> "reset", name |-> "", value |-> None,
                                   before |-> template.content,
                                   content |-> template'.content])
    /\ TemplateUnchanged

NextTemplate == TemplateFill \/ TemplateReset

SpecTemplate == InitTemplate /\ [][NextTemplate]_vars

(***************************************************************************)
(* Variation resolution on its own                                         *)
(***************************************************************************)
MaxDefs == 3

DefFilenames == { "test", "train", "val" }
DefFields == { "acc", "loss", "step" }

AllDefinitionLists ==
    UNION { [1..n -> { Defn(f, g) : f \in DefFilenames, g \in DefFields }] :
                n \in 2..MaxDefs }

InitVariation ==
    /\ files = <<>>
    /\ suspended = NoRenderer
    /\ alone = NotRun
    /\ template = NoTemplate
    /\ datapoints = <<>>
    /\ properties \in { << KV("anchors_y_definitions", List(l)) >> :
                            l \in AllDefinitionLists }
    /\ ranges = InitialRanges
    /\ split_content = <<>>
    /\ pc = "variation"
    /\ call = NoCall
    /\ optional_anchors = <<>>
    /\ varied_keys = None
    /\ domain = <<>>
    /\ idx = 0
    /\ result = NoResult
    /\ history = <<>>
    /\ given = [template |-> ArgNone, datapoints |-> <<>>, properties |-> properties,
                entry_datapoints |-> <<>>]

\* varied_keys, domain = self._collect_variations(y_definitions)
CollectVariations ==
    /\ pc = "variation"
    /\ LET v == _collect_variations(YDefinitions(properties))
       IN  /\ varied_keys' = List(v.varied_keys)
           /\ domain' = v.domain
           /\ result' = IF v.err = "none" THEN ReturnedEmpty(<<>>) ELSE Raised(v.err)
    /\ pc' = "resolved"
    /\ UNCHANGED << world, template, datapoints, properties, ranges, split_content,
                    call, optional_anchors, idx, history, given >>

NextVariation == CollectVariations

SpecVariation == InitVariation /\ [][NextVariation]_vars

(***************************************************************************)
(* Range assignment on its own                                             *)
(***************************************************************************)
MaxDomain == 16

\* A domain of k distinct values.
DomainOfSize(k) == [i \in 1..k |-> <<"v", ToString(i)>>]

InitRange ==
    /\ files = <<>>
    /\ suspended = NoRenderer
    /\ alone = NotRun
    /\ template = NoTemplate
    /\ datapoints = <<>>
    /\ properties = <<>>
    /\ ranges = InitialRanges
    /\ split_content = <<>>
    /\ pc = "range"
    /\ \E name \in { "color", "stroke_dash", "shape" },
          field \in { <<"rev">>, FILENAME, CONCAT_FIELDS } :
            call = [method |-> "mapping", name |-> name, field |-> field]
    /\ optional_anchors = <<>>
    /\ varied_keys = None
    /\ domain \in { DomainOfSize(k) : k \in 0..MaxDomain }
    /\ idx = 0
    /\ result = NoResult
    /\ history = <<>>
    /\ given = [template |-> ArgNone, datapoints |-> <<>>, properties |-> <<>>,
                entry_datapoints |-> <<>>]

\* encoding = self._get_optional_anchor_mapping(field, name, domain)
AssignRange ==
    /\ pc = "range"
    /\ LET m == _get_optional_anchor_mapping(ranges, call.field, call.name, domain)
       IN  /\ result' = IF m.err = "none"
                        THEN [kind |-> "encoding", error |-> "", value |-> m.encoding,
                              deferred |-> <<>>]
                        ELSE Raised(m.err)
           /\ ranges' = m.ranges
    /\ pc' = "assigned"
    /\ UNCHANGED << world, template, datapoints, properties, split_content, call,
                    passVars, history, given >>

NextRange == AssignRange

SpecRange == InitRange /\ [][NextRange]_vars

(***************************************************************************)
(* The catalog over a file system (SpecCatalog): get_template,             *)
(* dump_templates, Template(...) and edits of dumped files                 *)
(***************************************************************************)
\* How many of the dumped files may be edited on disk.
MaxEdited == 2

PLOTS == <<"plots">>
OUT == <<"out">>

\* The files that may be there at the start, and what each holds.
CandidateFiles ==
    { Div(PLOTS, <<"custom">>),
      Div(PLOTS, <<"custom", JSON>>),
      <<"custom">>,
      Div(PLOTS, <<"linear", JSON>>),
      Div(PLOTS, <<"custom", "_template", JSON>>) }

TextAt(path) == FileText(Dict(<< KV("template_content", Str(path)) >>))

FileSystems == { [p \in S |-> TextAt(p)] : S \in SUBSET CandidateFiles }

CatalogArgs ==
    { ArgNone, ArgInstance(FullTemplate),
      ArgName(<<"custom">>), ArgName(<<"custom", JSON>>), ArgName(<<"custom", ".v1">>),
      ArgName(<<"linear">>), ArgName(<<"smooth">>), ArgName(<<"lin">>),
      ArgName(<<"cust">>) }

DumpTargets == { {}, {<<"linear">>}, {<<"linear">>, <<"simple">>}, {<<"nope">>} }

EditableNames == { TEMPLATES[i].DEFAULT_NAME : i \in 1..MaxEdited }

EditedText == <<"{", "}">>

Returned(v) == [kind |-> "value", error |-> "", value |-> v, deferred |-> <<>>]

InitCatalog ==
    /\ files \in FileSystems
    /\ suspended = NoRenderer
    /\ alone = NotRun
    /\ template = NoTemplate
    /\ datapoints = <<>>
    /\ properties = <<>>
    /\ ranges = InitialRanges
    /\ split_content = <<>>
    /\ pc = "catalog"
    /\ call = NoCall
    /\ optional_anchors = <<>>
    /\ varied_keys = None
    /\ domain = <<>>
    /\ idx = 0
    /\ result = NoResult
    /\ history = <<>>
    /\ given = [template |-> ArgNone, datapoints |-> <<>>, properties |-> <<>>,
                entry_datapoints |-> <<>>]

catalogRest ==
    << template, datapoints, properties, ranges, split_content, pc, passVars,
       history, given, suspended, alone >>

\* get_template(template, template_dir)
GetTemplate ==
    /\ pc = "catalog"
    /\ \E arg \in CatalogArgs, dir \in { <<>>, PLOTS } :
        LET got == get_template(arg, dir, files)
        IN  /\ call' = [method |-> "get_template", template |-> arg, template_dir |-> dir]
            /\ result' = IF got.found THEN Returned(got.template)
                         ELSE Raised("TemplateNotFound")
    /\ UNCHANGED << files, catalogRest >>

\* dump_templates(output, targets)
DumpTemplates ==
    /\ pc = "catalog"
    /\ \E targets \in DumpTargets :
        LET r == dump_templates(OUT, targets, files)
        IN  /\ call' = [method |-> "dump_templates", output |-> OUT, targets |-> targets,
                        before |-> files, at |-> r.at]
            /\ files' = r.files
            /\ result' = IF r.err = "none" THEN Returned(None) ELSE Raised(r.err)
    /\ UNCHANGED catalogRest

\* Somebody edits a dumped file on disk.
EditFile ==
    /\ pc = "catalog"
    /\ \E name \in EditableNames :
        LET path == Div(OUT, with_suffix(name, JSON))
        IN  /\ path \in DOMAIN files
            /\ files[path] # EditedText
            /\ files' = [files EXCEPT ![path] = EditedText]
            /\ call' = [method |-> "edit", path |-> path]
    /\ result' = NoResult
    /\ UNCHANGED catalogRest

\* Template(content, name): __init__ checks nothing but
\* `assert self.content and self.name`.
NewTemplate ==
    /\ pc = "catalog"
    /\ \E content \in { <<>>, FileText(NoDataContent), <<"name">>, << Q, "name", Q >>,
                        Dumps(List(<< S1("name") >>), FALSE, FALSE, 0) },
          name \in { <<>>, <<"content">> } :
        /\ call' = [method |-> "Template", content |-> content, name |-> name]
        /\ result' = IF name = <<>> THEN Raised("AssertionError")
                     ELSE Returned(TemplateInit(content, name, None, <<>>))
    /\ UNCHANGED << files, catalogRest >>

NextCatalog ==
    \/ GetTemplate
    \/ DumpTemplates
    \/ EditFile
    \/ NewTemplate

SpecCatalog == InitCatalog /\ [][NextCatalog]_vars

(***************************************************************************)
(* Two renders in two threads (SpecConcurrent).  A render runs alone       *)
(* first; then two renderers are made, one from the same arguments and one *)
(* from arguments of its own, and the steps of their calls are taken in    *)
(* any order.  The variables of the pass are those of the running thread.  *)
(***************************************************************************)
ConcurrentInputs ==
    { [template |-> ArgInstance(FullTemplate),
       datapoints |-> SubSeq(Rows, 1, MaxPoints),
       properties |-> << KV("x", S1("step")), KV("y", S1("acc")),
                         KV("anchors_y_definitions",
                            List(<< Defn("test", "acc"), Defn("train", "loss") >>)) >>],
      [template |-> ArgNone,
       datapoints |-> Reverse(SubSeq(Rows, 1, MaxPoints)),
       properties |-> << KV("x", S1("step")), KV("y", S1("acc")), KV("title", S1("foo")) >>],
      [template |-> ArgInstance(FullTemplate),
       datapoints |-> SubSeq(Rows, 1, 1),
       properties |-> << KV("x", S1("step")), KV("y", S1("acc")),
                         KV("anchors_y_definitions",
                            List(<< Defn("test", "acc") >>)) >>] }

ConcurrentCalls ==
    { [method |-> "filled", split_anchors |-> <<>>, strict |-> TRUE, as_string |-> TRUE],
      [method |-> "partial", split_anchors |-> PARTIAL_SPLIT_ANCHORS, strict |-> TRUE,
       as_string |-> TRUE] }

\* VegaRenderer(datapoints, name, **properties) for thread `id`: a renderer
\* with a template instance, a datapoint list and palettes of its own.
NewRenderer(id, input) ==
    [id |-> id,
     template |-> get_template(input.template, <<>>, files).template,
     datapoints |-> input.datapoints,
     properties |-> input.properties,
     ranges |-> InitialRanges,
     split_content |-> <<>>,
     pc |-> "idle",
     call |-> NoCall,
     optional_anchors |-> <<>>,
     varied_keys |-> None,
     domain |-> <<>>,
     idx |-> 0,
     result |-> NoResult,
     history |-> <<>>,
     given |-> [template |-> input.template, datapoints |-> input.datapoints,
                properties |-> input.properties, entry_datapoints |-> input.datapoints]]

\* The renderer of the running thread, as a record.
Snapshot(id) ==
    [id |-> id, template |-> template, datapoints |-> datapoints,
     properties |-> properties, ranges |-> ranges, split_content |-> split_content,
     pc |-> pc, call |-> call, optional_anchors |-> optional_anchors,
     varied_keys |-> varied_keys, domain |-> domain, idx |-> idx, result |-> result,
     history |-> history, given |-> given]

\* The thread of renderer r runs from here on.
Load(r) ==
    /\ template' = r.template
    /\ datapoints' = r.datapoints
    /\ properties' = r.properties
    /\ ranges' = r.ranges
    /\ split_content' = r.split_content
    /\ pc' = r.pc
    /\ call' = r.call
    /\ optional_anchors' = r.optional_anchors
    /\ varied_keys' = r.varied_keys
    /\ domain' = r.domain
    /\ idx' = r.idx
    /\ result' = r.result
    /\ history' = r.history
    /\ given' = r.given

Running ==
    IF suspended.id = "a" THEN "b" ELSE IF suspended.id = "b" THEN "a" ELSE "solo"

\* A call is under way in renderer state r.
InCall(r) == r.pc \notin { "new", "idle", "failed" }

InitConcurrent == Init

\* The renderer of the render that runs alone.
ConstructAlone ==
    /\ pc = "new"
    /\ suspended.id = "none"
    /\ \E input \in ConcurrentInputs : Load(NewRenderer("solo", input))
    /\ UNCHANGED world

\* Each renderer is called once; thread a makes the call that was made alone.
CallRender ==
    /\ history = <<>>
    /\ \E args \in ConcurrentCalls :
          /\ Running = "a" => args = alone.call
          /\ Enter(args)

\* The render that ran alone is over: its result is kept, and the two threads
\* get their renderers, thread a from the arguments of the render that ran
\* alone, thread b from arguments of its own.
Fork ==
    /\ pc = "idle"
    /\ Len(history) = 1
    /\ suspended.id = "none"
    /\ alone' = [call |-> history[1].call, result |-> history[1].result,
                 overlapped |-> FALSE]
    /\ Load(NewRenderer("a", [template |-> given.template,
                              datapoints |-> given.datapoints,
                              properties |-> given.properties]))
    /\ \E input \in ConcurrentInputs : suspended' = NewRenderer("b", input)
    /\ UNCHANGED files

\* The scheduler takes the running thread off and puts the other on.
Switch ==
    /\ suspended.id # "none"
    /\ suspended' = Snapshot(Running)
    /\ Load(suspended)
    /\ alone' = [alone EXCEPT !.overlapped = @ \/ (InCall(suspended) /\ InCall(Snapshot(Running)))]
    /\ UNCHANGED files

NextConcurrent ==
    \/ ConstructAlone
    \/ CallRender
    \/ Fork
    \/ Switch
    \/ Validate
    \/ ProcessOptionalAnchors
    \/ FillColor
    \/ FillZoomAndPan
    \/ ResolveVariation
    \/ FillGroupBy
    \/ FillGroupByX
    \/ FillGroupByY
    \/ FillPivotField
    \/ FillRemaining
    \/ FillRow
    \/ FillStrokeDash
    \/ FillShape
    \/ UpdateDatapoints
    \/ FillRequired
    \/ Return

SpecConcurrent == InitConcurrent /\ [][NextConcurrent]_vars

(***************************************************************************)
(* Renders whose properties hold the token text of an anchor: a title that *)
(* is the x_label token, a title with that token inside a longer text and  *)
(* an x_label that is the y_label token, an x that is the y token.         *)
(***************************************************************************)
TokenInputs ==
    { [template |-> ArgInstance(FullTemplate),
       datapoints |-> SubSeq(Rows, 1, 1),
       properties |-> << KV("x", S1("step")), KV("y", S1("acc")),
                         KV("title", Str(anchor("x_label"))),
                         KV("anchors_y_definitions",
                            List(<< Defn("test", "acc") >>)) >>],
      [template |-> ArgInstance(FullTemplate),
       datapoints |-> SubSeq(Rows, 1, MaxPoints),
       properties |-> << KV("x", S1("step")), KV("y", S1("acc")),
                         KV("title", Str(<<"foo">> \o anchor("x_label"))),
                         KV("x_label", Str(anchor("y_label"))),
                         KV("anchors_y_definitions",
                            List(<< Defn("test", "acc"), Defn("train", "loss") >>)) >>],
      [template |-> ArgInstance(FullTemplate),
       datapoints |-> Reverse(SubSeq(Rows, 1, MaxPoints)),
       properties |-> << KV("x", Str(anchor("y"))), KV("y", S1("acc")),
                         KV("title", S1("foo")) >>] }

\* VegaRenderer(datapoints, name, **properties)
ConstructWithTokens ==
    /\ pc = "new"
    /\ \E input \in TokenInputs : Load(NewRenderer("solo", input))
    /\ UNCHANGED world

NextTokens ==
    \/ ConstructWithTokens
    \/ GetFilledTemplate
    \/ Validate
    \/ ProcessOptionalAnchors
    \/ FillColor
    \/ FillZoomAndPan
    \/ ResolveVariation
    \/ FillGroupBy
    \/ FillGroupByX
    \/ FillGroupByY
    \/ FillPivotField
    \/ FillRemaining
    \/ FillRow
    \/ FillStrokeDash
    \/ FillShape
    \/ UpdateDatapoints
    \/ FillRequired
    \/ Return

SpecTokens == Init /\ [][NextTokens]_vars

(***************************************************************************)
(* Properties of the render pass (Spec)                                    *)
(***************************************************************************)
\* A call has ended and no other has begun.
Done == pc = "idle" /\ history # <<>>
Last == history[Len(history)]
\* The datapoints the last call started from.
Entry == given.entry_datapoints

QuotedToken(upper) == <<Q, "<DVC_METRIC_", upper, ">", Q>>

DeclaresData == Contains(template.original, QuotedToken("DATA"))

DeclaresOptional ==
    \E upper \in { "COLOR", "GROUP_BY_X", "GROUP_BY_Y", "GROUP_BY", "PIVOT_FIELD",
                   "ROW", "SHAPE", "STROKE_DASH", "ZOOM_AND_PAN" } :
        Contains(template.original, QuotedToken(upper))

Configured(name) ==
    LET value == Get(given.properties, <<name>>)
    IN  value.k = "s" /\ value.v # <<>>

\* The configured field `name` is a key of no datapoint.
FieldMissing(name) ==
    /\ Configured(name)
    /\ \A i \in 1..Len(Entry) : \A j \in 1..Len(Entry[i]) :
          Entry[i][j][1] # Get(given.properties, <<name>>).v

SeriesDefs == YDefinitions(given.properties)

Differ(key) ==
    \E i, j \in 1..Len(SeriesDefs) :
        Get(SeriesDefs[i].v, key) # Get(SeriesDefs[j].v, key)

BothVary == Differ(FILENAME) /\ Differ(FIELD)

\* Series resolution fails: several definitions and no dimension varies.
NoneVaries ==
    /\ Len(SeriesDefs) >= 2
    /\ DeclaresOptional
    /\ ~Differ(FILENAME)
    /\ ~Differ(FIELD)

\* Annotation fails: both dimensions vary and a datapoint has lost its
\* filename or field.
Unjoinable ==
    /\ BothVary
    /\ DeclaresOptional
    /\ \E i \in 1..Len(Entry) :
          \E key \in { FILENAME, FIELD } :
              \A j \in 1..Len(Entry[i]) : Entry[i][j][1] # key

DataDeferred == \E i \in 1..Len(Last.call.split_anchors) :
                    Last.call.split_anchors[i] = "data"

C2_AsStated ==
    (pc # "new" /\ given.datapoints = <<>>) =>
        /\ pc # "failed"
        /\ (Done /\ Last.call.method = "filled") => Last.result = ReturnedEmpty(<<>>)

\* C2 amended: over empty datapoints the construction fails only when the
\* template property names no template; once constructed, every
\* get_filled_template call returns the empty structure without raising,
\* validates no field (the properties are what the caller passed) and fills no
\* anchor (the content is the original, nothing is split out).
C2_EmptyInput ==
    /\ (pc = "failed" /\ given.datapoints = <<>>) =>
          (given.template.k = "s" /\ result.error = "TemplateNotFound")
    /\ (Done /\ Last.call.method = "filled" /\ Entry = <<>>) =>
          /\ Last.result = ReturnedEmpty(<<>>)
          /\ template.content = template.original
          /\ properties = given.properties
          /\ split_content = <<>>

\* A strict call over empty datapoints with an x field configured returned the
\* empty structure.
C2_Witness ==
    /\ Done
    /\ Entry = <<>>
    /\ Last.call.method = "filled"
    /\ Last.call.strict
    /\ Configured("x")
    /\ Last.result.kind = "empty"

C4_AsStated ==
    \A i \in 1..(Len(history) - 1) :
        ( /\ history[i].call.method = "filled"
          /\ history[i].call = history[i + 1].call
          /\ history[i].result.kind = "spec" )
            => history[i + 1].result = history[i].result

\* The fields of a datapoint outside filename, field and the composite are
\* what they were at construction.
OthersUnchanged(i) ==
    \A key \in (Keys(datapoints[i]) \cup Keys(given.datapoints[i]))
                    \ { FILENAME, FIELD, CONCAT_FIELDS } :
        /\ Has(datapoints[i], key)
        /\ Has(given.datapoints[i], key)
        /\ Get(datapoints[i], key) = Get(given.datapoints[i], key)

\* C8: after a render with two or more series definitions, when both
\* dimensions vary every datapoint has the composite of its own filename and
\* field and neither of the two; when one varies every datapoint keeps that key
\* with its value, loses the other and gains no composite; every other field
\* is unchanged.
C8_AsStated ==
    (Done /\ Last.result.kind = "spec" /\ Len(SeriesDefs) >= 2) =>
        /\ Len(datapoints) = Len(given.datapoints)
        /\ \A i \in 1..Len(datapoints) :
            /\ BothVary =>
                  /\ Has(datapoints[i], CONCAT_FIELDS)
                  /\ Get(datapoints[i], CONCAT_FIELDS)
                        = Str(Get(given.datapoints[i], FILENAME).v \o <<"::">>
                                \o Get(given.datapoints[i], FIELD).v)
                  /\ ~Has(datapoints[i], FILENAME)
                  /\ ~Has(datapoints[i], FIELD)
            /\ \A key \in { FILENAME, FIELD } :
                  (Differ(key) /\ ~BothVary) =>
                      /\ Has(datapoints[i], key)
                      /\ Get(datapoints[i], key) = Get(given.datapoints[i], key)
                      /\ \A other \in { FILENAME, FIELD } \ { key } :
                            ~Has(datapoints[i], other)
                      /\ ~Has(datapoints[i], CONCAT_FIELDS)
            /\ OthersUnchanged(i)

\* The distinct rev values of the datapoints.
RevsInData ==
    { Get(given.datapoints[i], <<"rev">>).v : i \in 1..Len(given.datapoints) }

\* The color encoding the claim describes, over a domain.
ColorEncoding(revs) ==
    Dict(<< KV("field", S1("rev")),
            KV("scale",
               Dict(<< KV("domain", StrList(revs)),
                       KV("range",
                          List([i \in 1..Len(revs) |->
                                   InitialRanges.color[((i - 1) % 7) + 1]])) >>)) >>)

\* C10: when the template declares the color anchor and the datapoints are
\* not empty, the color encoding has field rev, no legend, and the domain
\* revs_with_datapoints in the caller's order; without revs_with_datapoints the
\* domain lists the distinct rev values of the datapoints, each once.
C10_AsStated ==
    ( /\ Done
      /\ Last.result.kind = "spec"
      /\ Last.call.method = "filled"
      /\ Contains(template.original, QuotedToken("COLOR")) ) =>
        IF Has(given.properties, <<"revs_with_datapoints">>)
        THEN LET revs == Get(given.properties, <<"revs_with_datapoints">>).v
             IN  Contains(template.content,
                          Dumps(ColorEncoding([i \in 1..Len(revs) |-> revs[i].v]),
                                TRUE, TRUE, 0))
        ELSE \E revs \in [1..Cardinality(RevsInData) -> RevsInData] :
                /\ Range(revs) = RevsInData
                /\ Contains(template.content, Dumps(ColorEncoding(revs), TRUE, TRUE, 0))

(***************************************************************************)
(* Properties of the template operations (SpecTemplate)                    *)
(***************************************************************************)
\* The number of places of `s` where `t` stands.
Occurrences(s, t) == Cardinality({ i \in 1..(Len(s) - Len(t) + 1) : MatchAt(s, t, i) })

AnchorNames ==
    { "title", "x", "y", "x_label", "y_label", "data", "color", "group_by",
      "group_by_x", "group_by_y", "pivot_field", "row", "shape", "stroke_dash",
      "zoom_and_pan" }

\* C5: after filling an anchor N that the template contains with a value V,
\* V stands wherever N's token stood, N's token appears nowhere in the result
\* and the tokens of the other anchors are where they were.
C5_AsStated ==
    \A i \in 1..Len(history) :
        (pc = "template" /\ history[i].op = "fill"
            /\ Contains(history[i].before, anchor(history[i].name))) =>
            /\ Occurrences(history[i].content, Dumps(history[i].value, TRUE, TRUE, 0))
                  >= Occurrences(history[i].before, anchor(history[i].name))
            /\ ~Contains(history[i].content, anchor(history[i].name))
            /\ \A other \in AnchorNames \ { history[i].name } :
                  Occurrences(history[i].content, anchor(other))
                      = Occurrences(history[i].before, anchor(other))

\* The fill at place i of the history follows a reset.
FillAfterReset(i) ==
    /\ i \in 2..Len(history)
    /\ history[i].op = "fill"
    /\ history[i - 1].op = "reset"

Ascending(list) ==
    \A i, j \in 1..Len(list) : i < j => StrLess(list[i], list[j])

\* C7: for two or more definitions varied_keys lists, in the order filename,
\* field, the dimensions with more than one value; with one varying dimension
\* the domain is the ascending list of its distinct values, with both the
\* ascending list of the distinct filename::field composites; the domain holds
\* no value twice.
C7_Variations ==
    (pc = "resolved" /\ Len(SeriesDefs) >= 2) =>
        /\ varied_keys = List(SelectSeq(<< FILENAME, FIELD >>, LAMBDA key : Differ(key)))
        /\ \A i, j \in 1..Len(domain) : i # j => domain[i] # domain[j]
        /\ \A key \in { FILENAME, FIELD } :
              (Differ(key) /\ ~BothVary) =>
                  /\ result.kind # "raised"
                  /\ Ascending(domain)
                  /\ Range(domain)
                        = { Get(SeriesDefs[i].v, key).v : i \in 1..Len(SeriesDefs) }
        /\ BothVary =>
              /\ result.kind # "raised"
              /\ Ascending(domain)
              /\ Range(domain)
                    = { Get(SeriesDefs[i].v, FILENAME).v \o <<"::">>
                            \o Get(SeriesDefs[i].v, FIELD).v : i \in 1..Len(SeriesDefs) }

\* Both dimensions vary over three definitions, one of them given twice.
C7_Witness ==
    /\ pc = "resolved"
    /\ BothVary
    /\ Len(SeriesDefs) = 3
    /\ Len(domain) = 2
    /\ varied_keys = List(<< FILENAME, FIELD >>)

\* The number of distinct values of a dimension over the definitions.
Distinct(key) ==
    Cardinality({ Get(SeriesDefs[i].v, key) : i \in 1..Len(SeriesDefs) })

\* One dimension has a value of its own for every definition and the other
\* has several values too.
OnePerDefinition(key, other) ==
    /\ Len(SeriesDefs) >= 2
    /\ Distinct(key) = Len(SeriesDefs)
    /\ Distinct(other) > 1

\* C20 as stated: when one dimension has as many distinct values as there
\* are definitions and the other has more than one but fewer, varied_keys is
\* the first dimension alone; when both have as many, varied_keys is filename
\* alone.
C20_AsStated ==
    pc = "resolved" =>
        /\ (OnePerDefinition(FILENAME, FIELD) /\ Distinct(FIELD) < Len(SeriesDefs))
              => varied_keys = List(<< FILENAME >>)
        /\ (OnePerDefinition(FIELD, FILENAME) /\ Distinct(FILENAME) < Len(SeriesDefs))
              => varied_keys = List(<< FIELD >>)
        /\ (OnePerDefinition(FILENAME, FIELD) /\ Distinct(FIELD) = Len(SeriesDefs))
              => varied_keys = List(<< FILENAME >>)

\* C20, amended: in those cases no dimension is preferred: varied_keys is
\* filename and field, in this order, and the domain is the ascending list of
\* the filename::field composites, one for every definition.
C20_NoPreference ==
    (pc = "resolved"
     /\ (OnePerDefinition(FILENAME, FIELD) \/ OnePerDefinition(FIELD, FILENAME))) =>
        /\ varied_keys = List(<< FILENAME, FIELD >>)
        /\ result.kind # "raised"
        /\ Len(domain) = Len(SeriesDefs)
        /\ Ascending(domain)
        /\ Range(domain)
              = { Get(SeriesDefs[i].v, FILENAME).v \o <<"::">>
                      \o Get(SeriesDefs[i].v, FIELD).v : i \in 1..Len(SeriesDefs) }

\* Three definitions from three files, with two fields between them.
C20_Witness ==
    /\ pc = "resolved"
    /\ Len(SeriesDefs) = 3
    /\ Distinct(FILENAME) = 3
    /\ Distinct(FIELD) = 2
    /\ varied_keys = List(<< FILENAME, FIELD >>)
    /\ Len(domain) = 3

(***************************************************************************)
(* Properties of the range assignment (SpecRange)                          *)
(***************************************************************************)
\* C9: for a domain of k values and a palette of p entries (7 colors, 7 dash
\* patterns, 4 shapes) the assigned range has k entries, entry i (from 0) is
\* palette[i mod p], and the palette is what it was before the assignment.
C9_PaletteCycling ==
    pc = "assigned" =>
        LET palette == InitialRanges[call.name]
            p == IF call.name = "shape" THEN 4 ELSE 7
            range == Get(Get(result.value.v, <<"scale">>).v, <<"range">>).v
        IN  /\ result.kind = "encoding"
            /\ Len(palette) = p
            /\ Len(range) = Len(domain)
            /\ \A i \in 0..(Len(domain) - 1) : range[i + 1] = palette[(i % p) + 1]
            /\ ranges = InitialRanges

\* A domain of more than twice the number of shapes got its range.
C9_Witness ==
    /\ pc = "assigned"
    /\ call.name = "shape"
    /\ Len(domain) > 8
    /\ result.kind = "encoding"

(***************************************************************************)
(* Properties of the deferred anchors (Spec)                               *)
(***************************************************************************)
Named(name) == \E i \in 1..Len(Last.call.split_anchors) : Last.call.split_anchors[i] = name

Declared(name) == Contains(template.original, QuotedToken(Upper(name)))

\* The quoted token of the anchor stands in the content wherever it stood in
\* the original.
Unfilled(name) ==
    Occurrences(template.content, QuotedToken(Upper(name)))
        = Occurrences(template.original, QuotedToken(Upper(name)))

Filled(name) == ~Contains(template.content, QuotedToken(Upper(name)))

HasEntry(name) == Has(split_content, << "<DVC_METRIC_", Upper(name), ">" >>)

EntryOf(name) == Get(split_content, << "<DVC_METRIC_", Upper(name), ">" >>)

RequiredAnchors == { "title", "x", "y", "x_label", "y_label", "data" }

\* The text of a required anchor: the property, or its default.
TextOf(name) ==
    IF Has(given.properties, <<name>>) THEN Get(given.properties, <<name>>)
    ELSE IF name = "title" THEN Str(<<>>)
    ELSE IF name = "x_label" THEN Get(given.properties, <<"x">>)
    ELSE IF name = "y_label" THEN Get(given.properties, <<"y">>)
    ELSE None

\* An encoding over a domain whose range cycles through a palette.
Encoding(field, palette, values, legend) ==
    Dict(<< KV("field", Str(field)),
            KV("scale",
               Dict(<< KV("domain", StrList(values)),
                       KV("range",
                          List([i \in 1..Len(values) |->
                                   palette[((i - 1) % Len(palette)) + 1]])) >>)) >>
         \o legend)

LegendBlock ==
    << KV("legend", Dict(<< KV("symbolFillColor", S1("transparent")),
                            KV("symbolStrokeColor", S1("grey")) >>)) >>

\* The revisions the color encoding is computed from.
ColorRevs ==
    IF Has(given.properties, <<"anchor_revs">>)
    THEN LET revs == Get(given.properties, <<"anchor_revs">>).v
         IN  [i \in 1..Len(revs) |-> revs[i].v]
    ELSE <<>>

\* The raw value of an anchor: a text, the list of datapoints or an object.
RawValue(name) ==
    CASE name \in RequiredAnchors \ { "data" } -> TextOf(name)
      [] name = "data" -> List([i \in 1..Len(datapoints) |-> Dict(datapoints[i])])
      [] name = "color" -> Encoding(<<"rev">>, InitialRanges.color, ColorRevs, <<>>)
      [] name = "zoom_and_pan" ->
            Dict(<< KV("name", S1("grid")), KV("select", S1("interval")),
                    KV("bind", S1("scales")) >>)
      [] name \in { "stroke_dash", "shape" } ->
            Encoding(Join(<<"::">>, varied_keys.v), InitialRanges[name], domain,
                     LegendBlock)
      [] OTHER -> None

\* A value as text: a text as it is, anything else as json.dumps writes it.
AsText(value) ==
    IF value.k = "s" THEN value ELSE Str(Dumps(value, FALSE, FALSE, 0))

Several == Len(SeriesDefs) >= 2

\* The anchors a call can split out with an entry.
Deferrable(name) ==
    \/ name \in RequiredAnchors /\ ~IsNone(TextOf(name)) /\ name # "data"
    \/ name = "data"
    \/ name \in { "color", "zoom_and_pan" }
    \/ name \in { "stroke_dash", "shape" } /\ Several

\* The anchors a call leaves unfilled, without an entry, when they are named.
LeftOut(name) ==
    \/ name \in { "group_by", "group_by_x", "group_by_y", "pivot_field" }
    \/ name = "row" /\ Several

\* The anchors a single-source call fills with {} named or not.
FilledAnyway(name) == name \in { "stroke_dash", "shape", "row" } /\ ~Several

AnchorOfKey(key) ==
    IF \E name \in AnchorNames : key = << "<DVC_METRIC_", Upper(name), ">" >>
    THEN CHOOSE name \in AnchorNames : key = << "<DVC_METRIC_", Upper(name), ">" >>
    ELSE ""

\* C12: get_partial_filled_template returns the specification and a map whose
\* keys are anchor tokens, never those of x and y, which are filled in place,
\* and whose values are the raw values: the list of annotated datapoints for
\* data, the encoding object for color, stroke_dash and zoom_and_pan, the text
\* for title, x_label and y_label.
C12_AsStated ==
    (Done /\ Last.call.method = "partial" /\ Last.result.kind = "spec"
          /\ Len(history) = 1) =>
        /\ \A name \in { "x", "y" } :
              (Declared(name) /\ Configured(name)) => Filled(name)
        /\ \A i \in 1..Len(Last.result.deferred) :
              LET name == AnchorOfKey(Last.result.deferred[i][1])
                  value == Last.result.deferred[i][2]
              IN  /\ name # ""
                  /\ name \notin { "x", "y" }
                  /\ value.k = RawValue(name).k
                  /\ value = RawValue(name)

Escaped(text) ==
    Flatten([i \in 1..Len(text) |->
                IF text[i] \in { ".", "[", "]" } THEN << BS, text[i] >> ELSE << text[i] >>])

RawToken(name) == << "<DVC_METRIC_", Upper(name), ">" >>

\* C14: in a filled specification every x and y anchor location holds the
\* configured field name with a backslash before each ".", "[" and "]", and the
\* title, x_label and y_label locations hold the unescaped text.
C14_AsStated ==
    (Done /\ Last.result.kind = "spec" /\ Last.call.split_anchors = <<>>) =>
        /\ \A name \in { "x", "y" } :
              (Configured(name) /\ Contains(template.original, RawToken(name))) =>
                  /\ ~Contains(template.content, RawToken(name))
                  /\ Occurrences(template.content,
                                 Dumps(Str(Escaped(TextOf(name).v)), TRUE, TRUE, 0))
                        >= Occurrences(template.original, QuotedToken(Upper(name)))
        /\ \A name \in { "title", "x_label", "y_label" } :
              (Declared(name) /\ ~IsNone(TextOf(name))) =>
                  /\ Filled(name)
                  /\ Contains(template.content, Dumps(TextOf(name), TRUE, TRUE, 0))

\* The calculate expression of a template that uses the y and x anchors inside
\* a longer string, with the two texts in their places.
Calculate(y_text, x_text) ==
    << Q, "pow(datum." >> \o y_text \o << " - datum." >> \o x_text \o << ",2)", Q >>

\* C15: an anchor token inside a longer string is replaced in place by the
\* filled value and the rest of the string is unchanged, so that after the x
\* and y fills no x or y token remains in the specification.
C15_AsStated ==
    ( /\ Done
      /\ Last.result.kind = "spec"
      /\ Last.call.split_anchors = <<>>
      /\ Configured("x")
      /\ Configured("y")
      /\ Contains(template.original, Calculate(RawToken("y"), RawToken("x"))) ) =>
        /\ Contains(template.content,
                    Calculate(JsonEscape(Escaped(TextOf("y").v)),
                              JsonEscape(Escaped(TextOf("x").v))))
        /\ ~Contains(template.content, RawToken("x"))
        /\ ~Contains(template.content, RawToken("y"))

(***************************************************************************)
(* Properties of the catalog (SpecCatalog)                                 *)
(***************************************************************************)
\* The last operation was get_template.
Resolved == pc = "catalog" /\ call.method = "get_template"

Exists(path) == path \in DOMAIN files

\* The result is a template read from the file at `path`, named `name`.
FromFile(path, name) ==
    /\ result.kind = "value"
    /\ result.value.content = files[path]
    /\ result.value.name = name

IsBuiltInName(name) == \E i \in 1..Len(TEMPLATES) : TEMPLATES[i].DEFAULT_NAME = name

\* The result is a new instance of the built-in called `name`.
FromRegistry(name) ==
    /\ result.kind = "value"
    /\ result.value.name = name
    /\ \E i \in 1..Len(TEMPLATES) :
          /\ TEMPLATES[i].DEFAULT_NAME = name
          /\ result.value.content = DefaultText(TEMPLATES[i].DEFAULT_CONTENT)

\* The search for the string `name`: the file dir/name, else the file
\* `second`, else the literal path, else the built-in of that very name, else
\* TemplateNotFound.  Without a template_dir the search begins at the literal
\* path.
SearchedAs(name, dir, second) ==
    IF dir # <<>> /\ Exists(Div(dir, name)) THEN FromFile(Div(dir, name), name)
    ELSE IF dir # <<>> /\ Exists(second) THEN FromFile(second, name)
    ELSE IF Exists(name) THEN FromFile(name, name)
    ELSE IF IsBuiltInName(name) THEN FromRegistry(name)
    ELSE result = Raised("TemplateNotFound")

Dumped == pc = "catalog" /\ call.method = "dump_templates"

\* The files a dump of `targets` is about, and the text of the built-in that
\* belongs in the file at `path`.
TargetPaths(output, targets) ==
    { Div(output, with_suffix(TEMPLATES[i].DEFAULT_NAME, JSON)) :
        i \in { j \in 1..Len(TEMPLATES) :
                  targets = {} \/ TEMPLATES[j].DEFAULT_NAME \in targets } }

BuiltInText(output, path) ==
    DefaultText(TEMPLATES[CHOOSE i \in 1..Len(TEMPLATES) :
                    Div(output, with_suffix(TEMPLATES[i].DEFAULT_NAME, JSON)) = path].DEFAULT_CONTENT)

\* The target files that were there before the dump with another content.
Mismatched ==
    { p \in TargetPaths(call.output, call.targets) \cap DOMAIN call.before :
        call.before[p] # BuiltInText(call.output, p) }

\* C17: dump_templates never modifies an existing file.  Every file that was
\* there before the call has the content it had; the call fails with
\* TemplateContentDoesNotMatch exactly when a target file was there with
\* another content; when it succeeds every target file holds the built-in's
\* text, and the same dump again succeeds and changes no file.
C17_NoOverwrite ==
    Dumped =>
        /\ \A p \in DOMAIN call.before : Exists(p) /\ files[p] = call.before[p]
        /\ (Mismatched # {}) <=> (result = Raised("TemplateContentDoesNotMatch"))
        /\ (Mismatched = {}) =>
              /\ result.kind = "value"
              /\ \A p \in TargetPaths(call.output, call.targets) :
                    Exists(p) /\ files[p] = BuiltInText(call.output, p)
              /\ dump_templates(call.output, call.targets, files)
                    = [files |-> files, err |-> "none", at |-> <<>>]

\* A dumped file was edited and the next dump of it failed and left the
\* edited text in place.
C17_Witness ==
    /\ Dumped
    /\ call.targets = {<<"linear">>}
    /\ Div(OUT, <<"linear", JSON>>) \in DOMAIN call.before
    /\ call.before[Div(OUT, <<"linear", JSON>>)] = EditedText
    /\ result = Raised("TemplateContentDoesNotMatch")
    /\ files[Div(OUT, <<"linear", JSON>>)] = EditedText

\* The last operation was Template(content, name).
Constructed == pc = "catalog" /\ call.method = "Template"

\* The text is that of a JSON object.
MapShaped(text) == text # <<>> /\ Head(text) = "{"

\* C18: constructing a Template with content that is present but is not a
\* map-shaped document fails with BadTemplate and produces no instance
\* (checked of the constructions that give a name).
C18_AsStated ==
    (Constructed /\ call.name # <<>> /\ call.content # <<>> /\ ~MapShaped(call.content)) =>
        result = Raised("BadTemplate")

(***************************************************************************)
(* Properties of two concurrent renders (SpecConcurrent)                   *)
(***************************************************************************)
\* The renderer of thread `id`, whether it runs or not.
Thread(id) == IF suspended.id = id THEN suspended ELSE Snapshot(id)

\* Both threads exist.
Forked == suspended.id \in { "a", "b" }

\* The call of thread `id` is over.
Over(id) == Thread(id).pc = "idle" /\ Len(Thread(id).history) = 1

PassOrder ==
    << "validate", "optional", "color", "zoom_and_pan", "resolve", "group_by",
       "group_by_x", "group_by_y", "pivot_field", "remaining", "row", "stroke_dash",
       "shape", "update", "required", "return" >>

PlaceOf(p) == CHOOSE i \in 1..Len(PassOrder) : PassOrder[i] = p

InPass(p) == \E i \in 1..Len(PassOrder) : PassOrder[i] = p

OptionalPlaces ==
    { "color", "zoom_and_pan", "group_by", "group_by_x", "group_by_y", "pivot_field",
      "remaining", "row", "stroke_dash", "shape" }

RequiredOrder == << "title", "x", "y", "x_label", "y_label", "data" >>

\* The rows as the data anchor gets them.
Payload(dps) == Dumps(List([i \in 1..Len(dps) |-> Dict(dps[i])]), TRUE, TRUE, 0)

\* C21: within a pass on non-empty datapoints the steps go forward only:
\* the field validation fills nothing and comes before every fill; the
\* content and the deferred map change only at the optional-anchor steps and,
\* after them and after the annotation of the datapoints, at the
\* required-anchor steps; the datapoints change only at the annotation; the
\* i-th required step handles the i-th of title, x, y, x_label, y_label, data
\* and leaves the tokens of the later ones where they are; the data step puts
\* the datapoints in, as they are then and as they stay.
C21_PassOrder ==
    [][InPass(pc) =>
        /\ InPass(pc') =>
              \/ PlaceOf(pc') > PlaceOf(pc)
              \/ pc = "required" /\ pc' = "required" /\ idx' = idx + 1
        /\ pc = "validate" =>
              /\ template' = template
              /\ split_content' = split_content
              /\ datapoints' = datapoints
        /\ (template' # template \/ split_content' # split_content) =>
              pc \in OptionalPlaces \cup { "required" }
        /\ datapoints' # datapoints => pc = "update"
        /\ pc = "required" =>
              /\ idx \in 1..Len(RequiredOrder)
              /\ split_content' # split_content =>
                    \A j \in (idx + 1)..Len(RequiredOrder) :
                        Has(split_content', RawToken(RequiredOrder[j]))
                            = Has(split_content, RawToken(RequiredOrder[j]))
              /\ template' # template =>
                    /\ Contains(template.content, QuotedToken(Upper(RequiredOrder[idx])))
                    /\ ~Contains(template'.content, QuotedToken(Upper(RequiredOrder[idx])))
                    /\ \A j \in (idx + 1)..Len(RequiredOrder) :
                          Occurrences(template'.content,
                                      QuotedToken(Upper(RequiredOrder[j])))
                              = Occurrences(template.content,
                                            QuotedToken(Upper(RequiredOrder[j])))
              /\ (idx = Len(RequiredOrder) /\ template' # template) =>
                    /\ Contains(template'.content, Payload(datapoints))
                    /\ datapoints' = datapoints
                    /\ pc' = "return"
    ]_vars

\* A specification was returned by a pass that annotated the datapoints with
\* the composite of filename and field and filled optional anchors, the title
\* and the data.
C21_Witness ==
    /\ Done
    /\ Last.result.kind = "spec"
    /\ Last.call.split_anchors = <<>>
    /\ DeclaresOptional
    /\ BothVary
    /\ datapoints # given.datapoints
    /\ \A i \in 1..Len(datapoints) : Has(datapoints[i], CONCAT_FIELDS)
    /\ Declared("title") /\ Filled("title")
    /\ Declared("data") /\ Filled("data")
    /\ Contains(template.content, Payload(datapoints))

(***************************************************************************)
(* Properties of the optional anchors' values (Spec)                       *)
(***************************************************************************)
\* A value as fill_anchor writes it.
Written(value) == Dumps(value, TRUE, TRUE, 0)

\* An anchor the template declares and the call does not split out is filled,
\* and the value stands in the content at least as often as the quoted token
\* stood in the original.
InPlace(name, value) ==
    (Declared(name) /\ ~Named(name)) =>
        /\ Filled(name)
        /\ Occurrences(template.content, Written(value))
              >= Occurrences(template.original, QuotedToken(Upper(name)))

\* How often the quoted tokens of the names stand in the original.
RECURSIVE Tokens(_)
Tokens(names) ==
    IF names = {} THEN 0
    ELSE LET n == CHOOSE x \in names : TRUE
         IN  Occurrences(template.original, QuotedToken(Upper(n))) + Tokens(names \ {n})

\* C22: with at most one series definition on a template that declares
\* optional anchors, varied_keys is empty, group_by is ["rev"], pivot_field is
\* "datum.rev", the row, shape and stroke_dash anchors the template declares
\* are filled with an empty object, and no datapoint has a filename or a field
\* key.  (group_by and pivot_field are looked at where the call does not split
\* them out.)
C22_SingleSource ==
    (Done /\ Last.result.kind = "spec" /\ Len(SeriesDefs) <= 1 /\ DeclaresOptional) =>
        /\ varied_keys = List(<<>>)
        /\ InPlace("group_by", List(<< S1("rev") >>))
        /\ InPlace("pivot_field", Str(<< "datum.", "rev" >>))
        /\ \A name \in { "row", "shape", "stroke_dash" } : Filled(name)
        /\ Occurrences(template.content, Written(Dict(<<>>)))
              = Tokens({ "row", "shape", "stroke_dash" })
        /\ \A i \in 1..Len(datapoints) :
              ~Has(datapoints[i], FILENAME) /\ ~Has(datapoints[i], FIELD)

\* One series definition, a template with the grouping, pivot, row, shape and
\* stroke_dash anchors, and datapoints that came with filename and field.
C22_Witness ==
    /\ Done
    /\ Last.result.kind = "spec"
    /\ Len(SeriesDefs) = 1
    /\ Last.call.split_anchors = <<>>
    /\ \A name \in { "group_by", "pivot_field", "row", "shape", "stroke_dash" } :
          Declared(name) /\ Filled(name)
    /\ \A i \in 1..Len(given.datapoints) :
          Has(given.datapoints[i], FILENAME) /\ Has(given.datapoints[i], FIELD)
    /\ \A i \in 1..Len(datapoints) :
          ~Has(datapoints[i], FILENAME) /\ ~Has(datapoints[i], FIELD)
    /\ Contains(template.content, Written(List(<< S1("rev") >>)))

(***************************************************************************)
(* Properties of the pending optional anchors (Spec)                       *)
(***************************************************************************)
OptionalNames == Range(OPTIONAL_ANCHORS)

Pending(name) == name \in Range(optional_anchors)

\* The step takes the name out of the list.
Leaves(name) == Pending(name) /\ name \notin Range(optional_anchors')

\* The step replaces the quoted tokens of the name in the content.
FilledNow(name) ==
    /\ template'.content # template.content
    /\ Contains(template.content, QuotedToken(Upper(name)))
    /\ ~Contains(template'.content, QuotedToken(Upper(name)))

\* The step writes the entry of the name in split_content.
DeferredNow(name) ==
    /\ split_content' # split_content
    /\ Has(split_content', RawToken(name))
    /\ (HasEntry(name) => Get(split_content', RawToken(name)) # EntryOf(name))

\* What a step of the optional anchors does to one of them: only a pending
\* anchor is filled or deferred, never both, and it leaves the list in that
\* step unless the step may keep it.
HandledOnce(name, may_stay) ==
    LET filled == FilledNow(name)
        deferred == DeferredNow(name)
    IN  (filled \/ deferred) =>
            /\ ~(filled /\ deferred)
            /\ Pending(name)
            /\ may_stay \/ Leaves(name)

\* The list of pending anchors only shrinks.
PendingOnlyShrinks ==
    /\ Range(optional_anchors') \subseteq Range(optional_anchors)
    /\ Len(optional_anchors') <= Len(optional_anchors)

\* C23 (as amended): in one fill pass each optional anchor is filled or
\* deferred at most once and never both, and the list of pending anchors only
\* shrinks; an anchor that _fill_optional_anchor, _fill_optional_anchor_mapping
\* or _fill_zoom_and_pan handles leaves the list in that step, while the
\* anchors the single-source loop fills with {} stay in the list, which is
\* not read again.
C23_HandledOnce ==
    [][(pc \in OptionalPlaces) =>
          (PendingOnlyShrinks
             /\ \A name \in OptionalNames : HandledOnce(name, pc = "remaining"))]_vars

\* C23 (as stated): an anchor leaves the list of pending anchors in the step
\* that fills or defers it.
C23_AsStated ==
    [][(pc \in OptionalPlaces) =>
          (\A name \in OptionalNames : HandledOnce(name, FALSE))]_vars

\* Several series on a template with optional anchors: one anchor deferred
\* with an entry, another filled in place, and nothing left pending.
C23_Witness ==
    /\ Done
    /\ Last.result.kind = "spec"
    /\ Several
    /\ DeclaresOptional
    /\ optional_anchors = <<>>
    /\ \E name \in OptionalNames : Declared(name) /\ Named(name) /\ HasEntry(name)
    /\ \E name \in OptionalNames : Declared(name) /\ ~Named(name) /\ Filled(name)

(***************************************************************************)
(* Properties of the grouping keys (Spec)                                  *)
(***************************************************************************)
\* "rev" followed by the varied keys.
KeyList == << <<"rev">> >> \o varied_keys.v

RECURSIVE Pivot(_)
\* 'datum.<key>' of each key in order, joined by " + '::' + ".
Pivot(keys) ==
    IF Len(keys) = 1 THEN <<"datum.">> \o keys[1]
    ELSE Pivot(SubSeq(keys, 1, Len(keys) - 1))
            \o <<" + '::' + ">> \o <<"datum.">> \o keys[Len(keys)]

VariedField ==
    IF BothVary THEN CONCAT_FIELDS
    ELSE IF Differ(FILENAME) THEN FILENAME ELSE FIELD

\* The encoding of stroke_dash or shape over the resolver's domain.
SeriesEncoding(name) == Encoding(VariedField, InitialRanges[name], domain, LegendBlock)

\* C25: with two or more series definitions the stroke_dash and shape
\* encodings each have the varied keys joined by "::" as field, the resolver's
\* domain as scale domain, a range taken positionally from the anchor's
\* palette, and the legend block {symbolFillColor: transparent,
\* symbolStrokeColor: grey}; filled in place, or as the split_content entry
\* when the call splits the anchor out.
C25_SeriesEncodings ==
    (Done /\ Last.result.kind = "spec" /\ Several /\ DeclaresOptional) =>
        \A name \in { "stroke_dash", "shape" } :
            /\ varied_keys.v # <<>>
            /\ VariedField = Join(FIELD_SEPARATOR, varied_keys.v)
            /\ IF Named(name)
               THEN Declared(name) =>
                       HasEntry(name) /\ EntryOf(name) = AsText(SeriesEncoding(name))
               ELSE InPlace(name, SeriesEncoding(name))

\* Filename and field both vary over three definitions: stroke_dash is
\* filled in place over the three joined values, and a call that splits
\* shape out has its encoding as the entry.
C25_Witness ==
    /\ Done
    /\ Last.result.kind = "spec"
    /\ BothVary
    /\ Len(domain) >= 2
    /\ Declared("stroke_dash") /\ ~Named("stroke_dash") /\ Filled("stroke_dash")
    /\ Contains(template.content,
                Written(Encoding(CONCAT_FIELDS, InitialRanges.stroke_dash, domain,
                                 LegendBlock)))
    /\ Declared("shape") /\ Named("shape") /\ HasEntry("shape")

(***************************************************************************)
(* Properties of a failed call (Spec)                                      *)
(***************************************************************************)
FailedWith(error) == Done /\ Last.result.kind = "raised" /\ Last.result.error = error

\* C26 (as stated): when get_filled_template fails with NoFieldInData or with
\* BadTemplate the datapoints are what they were when the call began: no
\* field was added to or removed from any datapoint.
C26_AsStated ==
    (FailedWith("NoFieldInData") \/ FailedWith("BadTemplate")) => datapoints = Entry

(***************************************************************************)
(* Properties of the tokens left in a specification (Spec)                 *)
(***************************************************************************)
\* C27 (as stated): for non-empty datapoints, nothing split out and x and y
\* configured, the returned specification holds no token of any recognised
\* anchor, whichever anchors the template declares and however many series
\* definitions there are.
C27_AsStated ==
    ( /\ Done
      /\ Last.result.kind = "spec"
      /\ Last.call.split_anchors = <<>>
      /\ Configured("x")
      /\ Configured("y") ) =>
        \A name \in AnchorNames : ~Contains(template.content, RawToken(name))

(***************************************************************************)
(* Properties of the keys the filled anchors refer to (Spec)               *)
(***************************************************************************)
\* The names that tell the series apart.
SeriesKeys == { FILENAME, FIELD, CONCAT_FIELDS }

\* The content refers to the key: as datum.<key> in an expression, as an
\* element of a list, or as the field of an encoding.
Referenced(key) ==
    \/ Contains(template.content, <<"datum.">> \o key)
    \/ Contains(template.content, <<Q>> \o key \o <<Q, ",">>)
    \/ Contains(template.content, <<Q>> \o key \o <<Q, "\n">>)

\* C28 (as stated): after a render with two or more series definitions every
\* series key that the filled group_by lists, the pivot_field expression or
\* the row, stroke_dash and shape encodings refer to is a key of every
\* datapoint of the data payload, when one dimension varies and when both do.
C28_AsStated ==
    ( /\ Done
      /\ Last.result.kind = "spec"
      /\ Several
      /\ Last.call.split_anchors = <<>>
      /\ \A i \in 1..Len(Entry) : Has(Entry[i], FILENAME) /\ Has(Entry[i], FIELD) ) =>
        \A key \in SeriesKeys :
            Referenced(key) => \A i \in 1..Len(datapoints) : Has(datapoints[i], key)

(***************************************************************************)
(* Properties of the completion of the variation resolution                *)
(* (SpecVariation)                                                         *)
(***************************************************************************)
\* C29 (as stated): variation resolution over two or more series definitions
\* completes with a (varied_keys, domain) pair and does not fail, also when
\* the definitions agree in filename and in field.
C29_AsStated ==
    (pc = "resolved" /\ Len(SeriesDefs) >= 2) =>
        result.kind # "raised"

(***************************************************************************)
(* Properties of values that hold token text (SpecTokens)                  *)
(***************************************************************************)
Supplied(name) == Has(given.properties, <<name>>)

\* The value the loop over the required names fills for a text anchor.
AsFilled(name) ==
    IF name \in { "x", "y" } THEN Str(Escaped(TextOf(name).v)) ELSE TextOf(name)

\* C30 (as stated): a value filled for one anchor is not altered by the later
\* fill of another: a supplied title, label or field name stands in the
\* returned specification as it was written, also when it holds the token
\* text of another anchor.
C30_AsStated ==
    (Done /\ Last.result.kind = "spec" /\ Last.call.split_anchors = <<>>) =>
        \A name \in { "title", "x", "y", "x_label", "y_label" } :
            (Supplied(name) /\ Declared(name)) =>
                Contains(template.content, Written(AsFilled(name)))

====
